---- MODULE Spec2Model ----
(***************************************************************************)
(* dhcpmon: the static-reservation store (internal/static/manager.go), the *)
(* MAC vendor resolver (internal/mac/database.go), the lease parser        *)
(* (internal/dhcp/parser.go) and the monitor's reload loop and read APIs.  *)
(*                                                                         *)
(* The specifications share the variables:                                 *)
(*   SpecStore*   sequential calls on the static store                     *)
(*   SpecLookup   concurrent Lookup calls on one resolver                  *)
(*   SpecLines    the store's entries and the lines they are written as    *)
(*   SpecScan     Lookup calls on a backing store that grows               *)
(*   SpecMonitor  Start, the watch goroutine, file changes and Stop        *)
(*   SpecMonitorFair, SpecMonitorStart  the same under fair scheduling     *)
(*   SpecReaders  the monitor with readers calling the Get methods         *)
(*   SpecCopyOut  the store and a caller changing the lists it was given   *)
(*   SpecValidate the store and Manager.Validate                           *)
(*   SpecStoreSafe  the store's calls with entries that break the rules    *)
(*   SpecSave     the store's calls, Save and the reloads its writes cause *)
(*   SpecParse, SpecDirective  the lease parser on texts and directives    *)
(*   SpecMonitorLive  the monitor with Start and watchFiles both fair      *)
(*   SpecLifecycle  the monitor with Stop called in every state            *)
(*   SpecPreload    Lookup on a resolver whose preload may stop early      *)
(*   SpecSentinel   Lookup on a store that names a default key             *)
(*   SpecRemain     ParseLeases and GetDHCPLeases while the clock runs     *)
(***************************************************************************)
EXTENDS Integers, Sequences, FiniteSets, TLC

VARIABLES
    entries,    \* Manager.entries: the store's list of StaticDHCPEntry
    clock,      \* time.Now().Unix(), in seconds
    last,       \* the last store call that returned: [op, err]
    mem,        \* backing arrays of the net.HardwareAddr / net.IP slices
    cache,      \* Database.cache: key -> OUIEntry
    preloaded,  \* Database.preloaded
    dbFile,     \* the lines of the backing store behind Database.file
    fileOff,    \* the read offset of the one open Database.file, in lines
    rlock,      \* Database.mu: the callers that hold it for reading
    wpend,      \* Database.mu: the callers blocked in Lock()
    lpc,        \* where each caller is in Lookup
    lmac,       \* Lookup's mac, upper-cased
    lbuf,       \* searchFile's scanner: the lines read and not yet scanned
    lfound,     \* searchFile's matching entry
    lret,       \* what each caller's last Lookup returned
    lmiss,      \* the caller's call repeats the address of its last call, which
                \* returned UNKNOWN after a scan
    files,      \* the leases, hosts and static files on disk
    events,     \* fsnotify events not yet received by watchFiles
    watched,    \* the paths added to the watcher
    changes,    \* how many times the files were changed from outside
    dhcpLeases, \* Monitor.dhcpLeases
    hostEntries,\* Monitor.hostEntries
    loaded,     \* which file generations each snapshot was read from
    tpc,        \* where Start's caller and the watchFiles goroutine are
    wopen,      \* the fsnotify watcher: none, open or closed
    pending,    \* the list a load has parsed and not yet assigned
    stopped,    \* Monitor.stopCh is closed
    health,     \* whether a reload of watchFiles failed, and one succeeded since
    muR,        \* Monitor.mu: the readers that hold it
    smR,        \* Manager.mu: the readers that hold it
    rpc,        \* where each reader is in its Get call
    rsrc,       \* the source it reads
    rn,         \* the length of the list it made
    rbuf,       \* the list it returns
    rstamp,     \* the generations of the snapshot it copied
    rfloor,     \* the newest generations any read had returned when it was called
    seen,       \* the newest generations any read has returned
    held,       \* a list a caller got from GetAll or GetByID
    text,       \* the content handed to the lease parser
    leases,     \* what the parser returned for it
    scopy,      \* Save's copy of the entries, between RUnlock and WriteFile
    sfile,      \* the entries written in the static file
    snotify,    \* the writes of the static file watchFiles has not handled
    panicked,   \* the process has panicked
    lgot        \* the last GetDHCPLeases call: its time, the snapshot, the list returned

storeVars == <<entries, clock, last, mem>>

lookupVars ==
    <<cache, preloaded, dbFile, fileOff, rlock, wpend, lpc, lmac, lbuf, lfound, lret, lmiss>>

fsVars == <<files, events, watched, changes>>

snapVars == <<dhcpLeases, hostEntries, loaded>>

taskVars == <<tpc, wopen, pending, stopped, health>>

readVars == <<muR, smR, rpc, rsrc, rn, rbuf, rstamp, rfloor, seen>>

monitorVars == <<fsVars, snapVars, taskVars, readVars>>

parseVars == <<text, leases, lgot>>

saveVars == <<scopy, sfile, snotify>>

ioVars == <<parseVars, saveVars, panicked>>

vars == <<storeVars, lookupVars, monitorVars, held, ioVars>>

-----------------------------------------------------------------------------
(* Bounds of the model                                                     *)

MaxEntries == 2     \* the store holds at most this many entries
MaxClock == 1       \* the clock runs from 0 to this second

-----------------------------------------------------------------------------
(* Byte slices.  An entry's MAC and IP are Go slices: a reference to a     *)
(* backing array (an address of mem) or nil.  mem[a] is the array's        *)
(* content, abstracted to a name.                                          *)

Nil == <<>>

MemInit == <<"M1", "M2", "M8", "IP1", "IP2", "IP6">>

AddrM1 == <<1>>
AddrM2 == <<2>>
AddrM8 == <<3>>
AddrIP1 == <<4>>
AddrIP2 == <<5>>
AddrIP6 == <<6>>

Deref(m, a) == m[a[1]]

\* len(e.MAC): M8 is an 8-byte (EUI-64) address, the others have 6 bytes
MACLen(v) == IF v = "M8" THEN 8 ELSE 6

\* IP.To4() != nil
IsIPv4(v) == v \in {"IP1", "IP2"}

\* MAC.String() of two addresses compare equal
MACString(m, a) == Deref(m, a)

\* IP.Equal
IPEqual(m, a, b) == Deref(m, a) = Deref(m, b)

-----------------------------------------------------------------------------
(* StaticDHCPEntry.Validate                                                *)

HostnameMax == 253

HostChars == {"h", "H", "1", "-", "."}

ValidateMsg(m, e) ==
    IF e.MAC = Nil THEN "mac_required"
    ELSE IF MACLen(Deref(m, e.MAC)) # 6 THEN "mac_length"
    ELSE IF e.IP = Nil /\ e.Hostname = <<>> THEN "ip_or_hostname_required"
    ELSE IF e.IP # Nil /\ ~IsIPv4(Deref(m, e.IP)) THEN "ipv4_only"
    ELSE IF e.Hostname # <<>> /\ Len(e.Hostname) > HostnameMax THEN "hostname_too_long"
    ELSE IF e.Hostname # <<>> /\ \E i \in 1..Len(e.Hostname) : e.Hostname[i] \notin HostChars
         THEN "hostname_chars"
    ELSE "ok"

Validate(m, e) == ValidateMsg(m, e) = "ok"

-----------------------------------------------------------------------------
(* The entries callers pass to Add and Update                              *)

CallerID == 0 - 1
UnknownID == 0 - 2

BaseEntry(mac, ip, en) ==
    [ID |-> CallerID, MAC |-> mac, IP |-> ip, Hostname |-> <<"h">>, Tag |-> <<>>,
     LeaseTime |-> <<>>, Comment |-> <<>>, Enabled |-> en, LineNumber |-> 0,
     RawLine |-> <<>>]

RichEntry ==
    [BaseEntry(AddrM2, AddrIP1, TRUE) EXCEPT
        !.Hostname = <<>>, !.Tag = <<"t">>, !.LeaseTime = <<"1", "2", "h">>,
        !.Comment = <<"c">>, !.LineNumber = 9, !.RawLine = <<"r", "a", "w">>]

ValidInputs ==
    {BaseEntry(AddrM1, ip, en) : ip \in {AddrIP1, AddrIP2}, en \in BOOLEAN}
    \cup {RichEntry, BaseEntry(AddrM2, Nil, FALSE)}

InvalidInputs ==
    {BaseEntry(Nil, AddrIP1, TRUE),
     BaseEntry(AddrM1, AddrIP6, TRUE),
     [BaseEntry(AddrM1, AddrIP1, TRUE) EXCEPT !.Hostname = <<"h", " ">>]}

Inputs == ValidInputs \cup InvalidInputs

-----------------------------------------------------------------------------
(* Manager.Add                                                             *)

\* Add without the existing.Enabled test: a disabled entry conflicts too
AddErrAnyEntry(m, es, e) ==
    IF ~Validate(m, e) THEN "invalid"
    ELSE IF \E i \in 1..Len(es) : MACString(m, es[i].MAC) = MACString(m, e.MAC)
         THEN "mac_exists"
    ELSE IF e.IP # Nil /\ \E i \in 1..Len(es) : es[i].IP # Nil /\ IPEqual(m, es[i].IP, e.IP)
         THEN "ip_exists"
    ELSE "none"

\* Add that lets a disabled new entry through whatever is stored
AddErrNewEnabledOnly(m, es, e) ==
    IF ~Validate(m, e) THEN "invalid"
    ELSE IF e.Enabled /\ \E i \in 1..Len(es) :
                MACString(m, es[i].MAC) = MACString(m, e.MAC) /\ es[i].Enabled
         THEN "mac_exists"
    ELSE IF e.Enabled /\ e.IP # Nil /\ \E i \in 1..Len(es) :
                es[i].IP # Nil /\ IPEqual(m, es[i].IP, e.IP) /\ es[i].Enabled
         THEN "ip_exists"
    ELSE "none"

\* Add that only requires a MAC before it looks for duplicates
AddErrMACOnly(m, es, e) ==
    IF e.MAC = Nil THEN "invalid"
    ELSE IF \E i \in 1..Len(es) :
                MACString(m, es[i].MAC) = MACString(m, e.MAC) /\ es[i].Enabled
         THEN "mac_exists"
    ELSE IF e.IP # Nil /\ \E i \in 1..Len(es) :
                es[i].IP # Nil /\ IPEqual(m, es[i].IP, e.IP) /\ es[i].Enabled
         THEN "ip_exists"
    ELSE "none"

AddErr(m, es, e) ==
    IF ~Validate(m, e) THEN "invalid"
    ELSE IF \E i \in 1..Len(es) :
                MACString(m, es[i].MAC) = MACString(m, e.MAC) /\ es[i].Enabled
         THEN "mac_exists"
    ELSE IF e.IP # Nil /\ \E i \in 1..Len(es) :
                es[i].IP # Nil /\ IPEqual(m, es[i].IP, e.IP) /\ es[i].Enabled
         THEN "ip_exists"
    ELSE "none"

\* entry.ID = fmt.Sprintf("entry_%d", time.Now().Unix()): the id is the second
NewID(now) == now

AddOp(m, es, e, now) ==
    LET err == AddErr(m, es, e) IN
    [err |-> err,
     entries |-> IF err = "none"
                 THEN Append(es, [e EXCEPT !.ID = NewID(now), !.LineNumber = Len(es) + 1])
                 ELSE es]

-----------------------------------------------------------------------------
(* Manager.Update, Manager.Delete, Manager.setEnabled                      *)

\* for i, entry := range m.entries { if entry.ID == id {...} }: the first match
FindByID(es, id) ==
    IF \E i \in 1..Len(es) : es[i].ID = id
    THEN CHOOSE i \in 1..Len(es) :
            es[i].ID = id /\ \A j \in 1..(i - 1) : es[j].ID # id
    ELSE 0

\* Update that does not look for duplicates
UpdateErrNoConflict(m, es, id, u) ==
    IF ~Validate(m, u) THEN "invalid"
    ELSE IF FindByID(es, id) = 0 THEN "not_found"
    ELSE "none"

UpdateErr(m, es, id, u) ==
    LET i == FindByID(es, id) IN
    IF ~Validate(m, u) THEN "invalid"
    ELSE IF i = 0 THEN "not_found"
    ELSE IF \E j \in 1..Len(es) :
                j # i /\ MACString(m, es[j].MAC) = MACString(m, u.MAC) /\ es[j].Enabled
         THEN "mac_exists"
    ELSE IF u.IP # Nil /\ \E j \in 1..Len(es) :
                j # i /\ es[j].IP # Nil /\ IPEqual(m, es[j].IP, u.IP) /\ es[j].Enabled
         THEN "ip_exists"
    ELSE "none"

\* Update that stores the argument as it came: id and line number not kept
UpdateOpNoPreserve(m, es, id, u) ==
    LET err == UpdateErr(m, es, id, u)
        i == FindByID(es, id) IN
    [err |-> err,
     entries |-> IF err = "none" THEN [es EXCEPT ![i] = u] ELSE es]

UpdateOp(m, es, id, u) ==
    LET err == UpdateErr(m, es, id, u)
        i == FindByID(es, id) IN
    [err |-> err,
     entries |-> IF err = "none"
                 THEN [es EXCEPT ![i] = [u EXCEPT !.ID = es[i].ID,
                                                  !.LineNumber = es[i].LineNumber]]
                 ELSE es]

\* append(m.entries[:i], m.entries[i+1:]...)
RemoveAt(es, i) == [k \in 1..(Len(es) - 1) |-> IF k < i THEN es[k] ELSE es[k + 1]]

\* a Delete that removes every entry with the id
DeleteOpAll(es, id) ==
    [err |-> IF FindByID(es, id) = 0 THEN "not_found" ELSE "none",
     entries |-> SelectSeq(es, LAMBDA e : e.ID # id)]

DeleteOp(es, id) ==
    LET i == FindByID(es, id) IN
    IF i = 0 THEN [err |-> "not_found", entries |-> es]
    ELSE [err |-> "none", entries |-> RemoveAt(es, i)]

\* setEnabled that falls back to the last entry when the id is unknown
SetEnabledOpFallback(es, id, enabled) ==
    LET i == FindByID(es, id) IN
    IF i = 0
    THEN [err |-> "not_found",
          entries |-> IF Len(es) = 0 THEN es ELSE [es EXCEPT ![Len(es)].Enabled = enabled]]
    ELSE [err |-> "none", entries |-> [es EXCEPT ![i].Enabled = enabled]]

\* setEnabled that also forgets the line the entry was read from
SetEnabledOpRewrite(es, id, enabled) ==
    LET i == FindByID(es, id) IN
    IF i = 0 THEN [err |-> "not_found", entries |-> es]
    ELSE [err |-> "none",
          entries |-> [es EXCEPT ![i].Enabled = enabled, ![i].RawLine = <<>>]]

SetEnabledOp(es, id, enabled) ==
    LET i == FindByID(es, id) IN
    IF i = 0 THEN [err |-> "not_found", entries |-> es]
    ELSE [err |-> "none", entries |-> [es EXCEPT ![i].Enabled = enabled]]

-----------------------------------------------------------------------------
(* The vendor resolver: strings are sequences of characters                *)

Letters == {"a", "b", "c", "d", "e", "f"}

\* strings.ToUpper, character by character
UpperChar(ch) ==
    CASE ch = "a" -> "A" [] ch = "b" -> "B" [] ch = "c" -> "C"
      [] ch = "d" -> "D" [] ch = "e" -> "E" [] ch = "f" -> "F"
      [] OTHER -> ch

ToUpper(str) == [i \in 1..Len(str) |-> UpperChar(str[i])]

\* strings.HasPrefix
HasPrefix(str, prefix) ==
    Len(prefix) <= Len(str) /\ SubSeq(str, 1, Len(prefix)) = prefix

KeyUnknown == <<"U", "N", "K", "N", "O", "W", "N">>

KeyPrivate(digit) == <<"P", "R", "I", "V", "A", "T", "E", "-", digit>>

PrivateDigits == {"2", "6", "A", "E"}

UnknownEntry ==
    [OUI |-> <<"0", "0", ":", "0", "0", ":", "0", "0", ":", "0", "0", ":", "0", "0", ":", "0", "0">>,
     Private |-> FALSE, Company |-> "UNKNOWN", Ref |-> "unknown"]

\* Ref is the allocation a *OUIEntry points to: privateMAC is allocated once
PrivateEntry ==
    [OUI |-> <<>>, Private |-> TRUE, Company |-> "Local/Privacy MAC", Ref |-> "privateMAC"]

\* initializeDefaults with a record allocated for each of the four keys
DefaultCachePerDigit ==
    [k \in {KeyUnknown} \cup {KeyPrivate(dg) : dg \in PrivateDigits} |->
        IF k = KeyUnknown THEN UnknownEntry
        ELSE [PrivateEntry EXCEPT !.Ref = <<"privateMAC", k[Len(k)]>>]]

\* initializeDefaults
DefaultCache ==
    [k \in {KeyUnknown} \cup {KeyPrivate(dg) : dg \in PrivateDigits} |->
        IF k = KeyUnknown THEN UnknownEntry ELSE PrivateEntry]

\* db.cache[key] = entry
CachePut(c, key, entry) ==
    [k \in DOMAIN c \cup {key} |-> IF k = key THEN entry ELSE c[k]]

\* a line of the backing store: a JSON record, or text json.Unmarshal rejects
Line(oui, company) ==
    [ok |-> TRUE,
     entry |-> [OUI |-> oui, Private |-> FALSE, Company |-> company, Ref |-> "entry"]]

CorruptLine == [ok |-> FALSE, entry |-> UnknownEntry]

\* preloadDatabase: every record of the file, later lines overwriting earlier
RECURSIVE PreloadFrom(_, _)
PreloadFrom(c, lines) ==
    IF lines = <<>> THEN c
    ELSE IF ~Head(lines).ok THEN PreloadFrom(c, Tail(lines))
    ELSE PreloadFrom(CachePut(c, ToUpper(Head(lines).entry.OUI), Head(lines).entry),
                     Tail(lines))

\* NewDatabase
NewCache(file, preload) ==
    IF preload THEN PreloadFrom(DefaultCache, file) ELSE DefaultCache

\* for i := len(mac); i >= 0; i-- { cache[mac[0:i]] }: the longest cached prefix
CacheHits(c, mac) == {i \in 0..Len(mac) : SubSeq(mac, 1, i) \in DOMAIN c}

\* a loop that runs from the empty prefix up: the shortest cached prefix
ShortestHit(c, mac) ==
    CHOOSE i \in CacheHits(c, mac) : \A j \in CacheHits(c, mac) : i <= j

LongestHit(c, mac) ==
    CHOOSE i \in CacheHits(c, mac) : \A j \in CacheHits(c, mac) : j <= i

\* the part of Lookup that runs before the file is searched: the entry it
\* returns, or "search" when the file is to be scanned
ProbeCache(c, pre, mac) ==
    IF CacheHits(c, mac) # {} THEN [found |-> TRUE, entry |-> c[SubSeq(mac, 1, LongestHit(c, mac))]]
    ELSE IF Len(mac) > 1 /\ mac[2] \in PrivateDigits
         THEN [found |-> TRUE, entry |-> c[KeyPrivate(mac[2])]]
    ELSE IF ~pre THEN [found |-> FALSE, entry |-> UnknownEntry]
    ELSE [found |-> TRUE, entry |-> c[KeyUnknown]]

Callers == {"c1", "c2"}

MACInputs == {<<"a", "b", ":", "0">>, <<"A", "B">>, <<"0", "e">>, <<"1", "2">>, <<"c">>, <<>>}

Files ==
    {<<>>,
     <<CorruptLine, Line(<<"a", "B">>, "AB Corp")>>,
     <<Line(<<"A">>, "A Corp"), Line(<<"A", "B", ":">>, "AB Ltd")>>,
     <<Line(<<"0", "E">>, "0E Inc")>>,
     <<Line(<<>>, "No OUI")>>}

LookupCall(c, mac) ==
    /\ lpc[c] = "idle"
    /\ lpc' = [lpc EXCEPT ![c] = "rlock"]
    /\ lmac' = [lmac EXCEPT ![c] = ToUpper(mac)]
    /\ UNCHANGED <<cache, preloaded, dbFile, fileOff, rlock, wpend, lbuf, lfound, lret>>
    /\ lmiss' = [lmiss EXCEPT ![c] =
                    ~preloaded /\ lret[c].Ref = "unknown" /\ lmac[c] = ToUpper(mac)]
    /\ UNCHANGED <<storeVars, monitorVars, held, ioVars>>

\* db.mu.RLock(): blocks while a writer waits for the lock
LookupRLock(c) ==
    /\ lpc[c] = "rlock"
    /\ wpend = {}
    /\ rlock' = rlock \cup {c}
    /\ lpc' = [lpc EXCEPT ![c] = "probe"]
    /\ UNCHANGED <<cache, preloaded, dbFile, fileOff, wpend, lmac, lbuf, lfound, lret>>
    /\ UNCHANGED lmiss
    /\ UNCHANGED <<storeVars, monitorVars, held, ioVars>>

LookupProbe(c) ==
    LET r == ProbeCache(cache, preloaded, lmac[c]) IN
    /\ lpc[c] = "probe"
    /\ IF r.found
       THEN lpc' = [lpc EXCEPT ![c] = "return"] /\ lfound' = [lfound EXCEPT ![c] = r.entry]
       ELSE lpc' = [lpc EXCEPT ![c] = "seek"] /\ UNCHANGED lfound
    /\ UNCHANGED <<cache, preloaded, dbFile, fileOff, rlock, wpend, lmac, lbuf, lret>>
    /\ UNCHANGED lmiss
    /\ UNCHANGED <<storeVars, monitorVars, held, ioVars>>

\* db.file.Seek(0, 0); scanner := bufio.NewScanner(db.file)
SearchSeek(c) ==
    /\ lpc[c] = "seek"
    /\ fileOff' = 0
    /\ lbuf' = [lbuf EXCEPT ![c] = <<>>]
    /\ lpc' = [lpc EXCEPT ![c] = "scan"]
    /\ UNCHANGED <<cache, preloaded, dbFile, rlock, wpend, lmac, lfound, lret>>
    /\ UNCHANGED lmiss
    /\ UNCHANGED <<storeVars, monitorVars, held, ioVars>>

\* scanner.Scan() with an empty buffer reads on from the file's offset; how
\* many lines one read returns depends on the buffer and the line lengths
SearchRead(c, n) ==
    /\ lpc[c] = "scan"
    /\ lbuf[c] = <<>>
    /\ fileOff + n <= Len(dbFile)
    /\ lbuf' = [lbuf EXCEPT ![c] = SubSeq(dbFile, fileOff + 1, fileOff + n)]
    /\ fileOff' = fileOff + n
    /\ UNCHANGED <<cache, preloaded, dbFile, rlock, wpend, lpc, lmac, lfound, lret>>
    /\ UNCHANGED lmiss
    /\ UNCHANGED <<storeVars, monitorVars, held, ioVars>>

\* one turn of the scan loop on a buffered line
SearchLine(c) ==
    /\ lpc[c] = "scan"
    /\ lbuf[c] # <<>>
    /\ LET line == Head(lbuf[c]) IN
        IF line.ok /\ HasPrefix(lmac[c], ToUpper(line.entry.OUI))
        THEN /\ lfound' = [lfound EXCEPT ![c] = line.entry]
             /\ lpc' = [lpc EXCEPT ![c] = "lock"]
             /\ UNCHANGED lbuf
        ELSE /\ lbuf' = [lbuf EXCEPT ![c] = Tail(lbuf[c])]
             /\ UNCHANGED <<lfound, lpc>>
    /\ UNCHANGED <<cache, preloaded, dbFile, fileOff, rlock, wpend, lmac, lret>>
    /\ UNCHANGED lmiss
    /\ UNCHANGED <<storeVars, monitorVars, held, ioVars>>

\* scanner.Scan() returns false: searchFile returns nil, Lookup the UNKNOWN entry
SearchEOF(c) ==
    /\ lpc[c] = "scan"
    /\ lbuf[c] = <<>>
    /\ fileOff >= Len(dbFile)
    /\ lfound' = [lfound EXCEPT ![c] = cache[KeyUnknown]]
    /\ lpc' = [lpc EXCEPT ![c] = "return"]
    /\ UNCHANGED <<cache, preloaded, dbFile, fileOff, rlock, wpend, lmac, lbuf, lret>>
    /\ UNCHANGED lmiss
    /\ UNCHANGED <<storeVars, monitorVars, held, ioVars>>

\* db.mu.Lock(); db.cache[prefix] = &entry; db.mu.Unlock().  Lock() waits
\* until no caller holds the lock for reading, and from its call on no new
\* reader gets in.
SearchLock(c) ==
    /\ lpc[c] \in {"lock", "lock_wait"}
    /\ IF rlock = {}
       THEN /\ cache' = CachePut(cache, ToUpper(lfound[c].OUI), lfound[c])
            /\ wpend' = wpend \ {c}
            /\ lpc' = [lpc EXCEPT ![c] = "return"]
       ELSE /\ wpend' = wpend \cup {c}
            /\ lpc' = [lpc EXCEPT ![c] = "lock_wait"]
            /\ UNCHANGED cache
    /\ UNCHANGED <<preloaded, dbFile, fileOff, rlock, lmac, lbuf, lfound, lret>>
    /\ UNCHANGED lmiss
    /\ UNCHANGED <<storeVars, monitorVars, held, ioVars>>

\* return entry, and the deferred db.mu.RUnlock()
LookupReturn(c) ==
    /\ lpc[c] = "return"
    /\ rlock' = rlock \ {c}
    /\ lret' = [lret EXCEPT ![c] = lfound[c]]
    /\ lpc' = [lpc EXCEPT ![c] = "idle"]
    /\ UNCHANGED <<cache, preloaded, dbFile, fileOff, wpend, lmac, lbuf, lfound>>
    /\ UNCHANGED lmiss
    /\ UNCHANGED <<storeVars, monitorVars, held, ioVars>>

MaxStoreLines == 2  \* the backing store grows to at most this many lines

\* the records appended to the backing store while the resolver runs
AppendLines == {Line(<<"c">>, "C Corp")}

\* a record is appended to the backing store file from outside; the
\* resolver's open file sees it at its next read
AppendStore(line) ==
    /\ Len(dbFile) < MaxStoreLines
    /\ dbFile' = Append(dbFile, line)
    /\ UNCHANGED <<cache, preloaded, fileOff, rlock, wpend, lpc, lmac, lbuf, lfound, lret, lmiss>>
    /\ UNCHANGED <<storeVars, monitorVars, held, ioVars>>

NoEntry == [OUI |-> <<>>, Private |-> FALSE, Company |-> "", Ref |-> "nil"]

InitLookupWith(file, preload) ==
    /\ dbFile = file
    /\ preloaded = preload
    /\ cache = NewCache(file, preload)
    /\ fileOff = IF preload THEN Len(file) ELSE 0
    /\ rlock = {}
    /\ wpend = {}
    /\ lpc = [c \in Callers |-> "idle"]
    /\ lmac = [c \in Callers |-> <<>>]
    /\ lbuf = [c \in Callers |-> <<>>]
    /\ lfound = [c \in Callers |-> NoEntry]
    /\ lret = [c \in Callers |-> NoEntry]
    /\ lmiss = [c \in Callers |-> FALSE]

-----------------------------------------------------------------------------
(* The store's calls as steps.  Every mutating method holds m.mu.Lock for  *)
(* its whole body, so each call is one step.  last is what the observer    *)
(* keeps of the call that returned: rec[<<op, err>>].                      *)

Ops == {"add", "update", "delete", "enable", "disable"}
Errs == {"none", "invalid", "mac_exists", "ip_exists", "not_found"}
ConflictErrs == {"mac_exists", "ip_exists"}

\* the observer keeps the method and the error it returned
RecAll == [p \in Ops \X Errs |-> [op |-> p[1], err |-> p[2]]]

\* the observer keeps the outcome of Add calls only
RecAdd ==
    [p \in Ops \X Errs |->
        IF p[1] # "add" \/ p[2] = "invalid" THEN [op |-> "other", err |-> "-"]
        ELSE [op |-> "add", err |-> IF p[2] = "none" THEN "none" ELSE "conflict"]]

\* the observer keeps whether a call failed, and which call succeeded if it was Update
RecUpd ==
    [p \in Ops \X Errs |->
        IF p[2] # "none" THEN [op |-> "any", err |-> "failed"]
        ELSE IF p[1] = "update" THEN [op |-> "update", err |-> "none"]
        ELSE [op |-> "other", err |-> "-"]]

IDArgs == (0..MaxClock) \cup {UnknownID}

Tick ==
    /\ clock < MaxClock
    /\ clock' = clock + 1
    /\ UNCHANGED <<entries, last, mem>>
    /\ UNCHANGED <<lookupVars, monitorVars, held, ioVars>>

Add(e, rec) ==
    LET r == AddOp(mem, entries, e, clock) IN
    /\ Len(r.entries) <= MaxEntries
    /\ entries' = r.entries
    /\ last' = rec[<<"add", r.err>>]
    /\ UNCHANGED <<clock, mem>>
    /\ UNCHANGED <<lookupVars, monitorVars, held, ioVars>>

Update(id, u, rec) ==
    LET r == UpdateOp(mem, entries, id, u) IN
    /\ entries' = r.entries
    /\ last' = rec[<<"update", r.err>>]
    /\ UNCHANGED <<clock, mem>>
    /\ UNCHANGED <<lookupVars, monitorVars, held, ioVars>>

Delete(id, rec) ==
    LET r == DeleteOp(entries, id) IN
    /\ entries' = r.entries
    /\ last' = rec[<<"delete", r.err>>]
    /\ UNCHANGED <<clock, mem>>
    /\ UNCHANGED <<lookupVars, monitorVars, held, ioVars>>

Enable(id, rec) ==
    LET r == SetEnabledOp(entries, id, TRUE) IN
    /\ entries' = r.entries
    /\ last' = rec[<<"enable", r.err>>]
    /\ UNCHANGED <<clock, mem>>
    /\ UNCHANGED <<lookupVars, monitorVars, held, ioVars>>

Disable(id, rec) ==
    LET r == SetEnabledOp(entries, id, FALSE) IN
    /\ entries' = r.entries
    /\ last' = rec[<<"disable", r.err>>]
    /\ UNCHANGED <<clock, mem>>
    /\ UNCHANGED <<lookupVars, monitorVars, held, ioVars>>

-----------------------------------------------------------------------------
(* The monitor: the three source files, their parsers and the loads.  A    *)
(* file is [ok, gen, lines]: whether it can be read, how many times it was *)
(* rewritten, and how many lines it has.  Every record parsed from a file  *)
(* carries the file's generation, so lists of different reloads differ.    *)

MaxChanges == 2     \* the files are changed from outside at most this often
SnapLines == 2      \* the lines of a file written from outside
MaxRewrites == 1    \* the rewrites of files while readers are watched

Src == {"leases", "hosts", "static"}

Tasks == {"starter", "watcher"}

Readers == {"r1"}

Digit(n) ==
    CASE n = 0 -> "0" [] n = 1 -> "1" [] n = 2 -> "2" [] n = 3 -> "3"
      [] n = 4 -> "4" [] n = 5 -> "5" [] n = 6 -> "6" [] n = 7 -> "7"
      [] n = 8 -> "8" [] OTHER -> "9"

\* the hostname of the reservations of generation g of the static file
GenHost(g) == <<"h", Digit(g)>>

\* the MAC of the leases file's lines: a locally administered address
LeaseMAC ==
    <<"0", "e", ":", "0", "0", ":", "0", "0", ":", "0", "0", ":", "0", "0", ":", "0", "1">>

\* the MAC of the static file's lines
StaticMAC ==
    <<"a", "b", ":", "0", "0", ":", "0", "0", ":", "0", "0", ":", "0", "0", ":", "0", "2">>

\* the backing file of the resolver the lease parser uses
MonitorOUI == <<Line(<<"a", "b">>, "AB Corp")>>

\* Lookup called by one goroutine at a time: the entry it returns, or hang
\* when searchFile finds a matching line and calls db.mu.Lock() under the
\* caller's own read lock
LookupResult(c, pre, file, mac) ==
    LET r == ProbeCache(c, pre, ToUpper(mac)) IN
    IF r.found THEN [hang |-> FALSE, entry |-> r.entry]
    ELSE IF \E i \in 1..Len(file) :
                file[i].ok /\ HasPrefix(ToUpper(mac), ToUpper(file[i].entry.OUI))
         THEN [hang |-> TRUE, entry |-> NoEntry]
    ELSE [hang |-> FALSE, entry |-> c[KeyUnknown]]

\* the list ParseLeases builds: a lease per line of the content, then a
\* reservation per line of the static file when it can be opened; le and se
\* are the vendor records Lookup returned for their MACs
LeaseList(fl, fs, le, se) ==
    [i \in 1..fl.lines |->
        [gen |-> fl.gen, line |-> i, Static |-> FALSE, Info |-> le]]
    \o [i \in 1..(IF fs.ok THEN fs.lines ELSE 0) |->
        [gen |-> fs.gen, line |-> i, Static |-> TRUE, Info |-> se]]

\* ParseLeases, which hangs when one of its Lookups does
ParseLeases(fl, fs, c, pre, file) ==
    LET lk == LookupResult(c, pre, file, LeaseMAC)
        sk == LookupResult(c, pre, file, StaticMAC)
    IN  [hang |-> (fl.lines > 0 /\ lk.hang) \/ (fs.ok /\ fs.lines > 0 /\ sk.hang),
         list |-> LeaseList(fl, fs, lk.entry, sk.entry)]

\* hosts.ParseHosts
ParseHosts(fh) == [i \in 1..fh.lines |-> [gen |-> fh.gen, line |-> i]]

\* static.Parser.ParseFile: an error when the file cannot be read, else its
\* reservations
ParseFile(fs) ==
    [err |-> ~fs.ok,
     entries |-> IF ~fs.ok THEN <<>>
                 ELSE [i \in 1..fs.lines |->
                        [BaseEntry(IF i = 1 THEN AddrM1 ELSE AddrM2,
                                   IF i = 1 THEN AddrIP1 ELSE AddrIP2, TRUE)
                            EXCEPT !.ID = i, !.LineNumber = i, !.Hostname = GenHost(fs.gen)]]]

\* a Load that assigns whatever ParseFile returned
ManagerLoadOverwrite(es, fs) == ParseFile(fs)

\* Manager.Load: the entries after the call, and whether it failed
ManagerLoad(es, fs) ==
    IF ParseFile(fs).err THEN [err |-> TRUE, entries |-> es]
    ELSE [err |-> FALSE, entries |-> ParseFile(fs).entries]

\* the generations a snapshot of source s is read from
NoStamp == <<0 - 1, 0 - 1>>

StampOf(f, s) ==
    IF s = "leases" THEN <<f["leases"].gen, f["static"].gen>> ELSE <<f[s].gen, 0>>

StampLeq(a, b) == a[1] <= b[1] /\ a[2] <= b[2]

Snapshot(s) ==
    CASE s = "leases" -> dhcpLeases
      [] s = "hosts" -> hostEntries
      [] OTHER -> entries

\* the readers that hold the lock of source s: Monitor.mu guards the leases
\* and the hosts, Manager.mu the static entries
LockOf(s) == IF s = "static" THEN smR ELSE muR

\* a Lock() that does not wait for the readers
CanLockAnyway(readers) == TRUE

\* Lock() returns when no reader holds the lock
CanLock(readers) == readers = {}

At(a) == [at |-> a, src |-> "-"]

AtSrc(a, s) == [at |-> a, src |-> s]

\* a Start that returns an error after a load
AfterAbort(t, s) == IF t = "watcher" THEN At("select") ELSE At("failed")

\* where a task goes on after its load of source s
After(t, s) ==
    IF t = "watcher" THEN At("select")
    ELSE CASE s = "leases" -> AtSrc("load", "hosts")
           [] s = "hosts" -> AtSrc("load", "static")
           [] OTHER -> At("spawn")

\* a task is in Lock() of the lock of source s: no new reader gets in
WriterWaiting(s) ==
    IF s = "static" THEN \E t \in Tasks : tpc[t] = AtSrc("load", "static")
    ELSE \E t \in Tasks : tpc[t].at = "assign"

\* failed: a load has failed; recovered: watchFiles has completed a reload
\* after that
HealthAfter(t, err) ==
    IF err THEN "failed"
    ELSE IF health = "failed" /\ t = "watcher" THEN "recovered" ELSE health

-----------------------------------------------------------------------------
(* The monitor's steps                                                     *)

\* the frame of every step of the monitor
MonitorFrame == UNCHANGED <<clock, last, mem, lookupVars, held, ioVars>>

\* somebody rewrites a file with n lines; the watcher reports a Write for a
\* watched path
WriteFile(s, n) ==
    /\ changes < MaxChanges
    /\ changes' = changes + 1
    /\ files' = [files EXCEPT ![s] = [ok |-> TRUE, gen |-> @.gen + 1, lines |-> n]]
    /\ events' = IF s \in watched /\ wopen = "open"
                 THEN Append(events, [name |-> s, op |-> "write"]) ELSE events
    /\ UNCHANGED <<watched, snapVars, taskVars, readVars, entries>>
    /\ MonitorFrame

\* somebody removes a file; the watcher reports a Remove for a watched path
RemoveFile(s) ==
    /\ changes < MaxChanges
    /\ files[s].ok
    /\ changes' = changes + 1
    /\ files' = [files EXCEPT ![s].ok = FALSE]
    /\ events' = IF s \in watched /\ wopen = "open"
                 THEN Append(events, [name |-> s, op |-> "remove"]) ELSE events
    /\ UNCHANGED <<watched, snapVars, taskVars, readVars, entries>>
    /\ MonitorFrame

\* Start: fsnotify.NewWatcher() succeeds
StartBegin ==
    /\ tpc["starter"] = At("new")
    /\ tpc' = [tpc EXCEPT !["starter"] = AtSrc("load", "leases")]
    /\ wopen' = "open"
    /\ UNCHANGED <<fsVars, snapVars, pending, stopped, health, readVars, entries>>
    /\ MonitorFrame

\* Start: fsnotify.NewWatcher() fails and Start returns the error
StartFail ==
    /\ tpc["starter"] = At("new")
    /\ tpc' = [tpc EXCEPT !["starter"] = At("failed")]
    /\ UNCHANGED <<wopen, fsVars, snapVars, pending, stopped, health, readVars, entries>>
    /\ MonitorFrame

\* loadDHCPLeases / loadHostEntries up to m.mu.Lock(): os.ReadFile and the
\* parse.  On a read error the load returns; the caller logs and goes on.
LoadRead(t, s) ==
    /\ tpc[t] = AtSrc("load", s)
    /\ s \in {"leases", "hosts"}
    /\ LET parsed == IF s = "hosts" THEN [hang |-> FALSE, list |-> ParseHosts(files[s])]
                     ELSE ParseLeases(files[s], files["static"], cache, preloaded, dbFile)
       IN  IF ~files[s].ok
           THEN /\ tpc' = [tpc EXCEPT ![t] = After(t, s)]
                /\ health' = HealthAfter(t, TRUE)
                /\ UNCHANGED pending
           ELSE IF parsed.hang
           THEN /\ tpc' = [tpc EXCEPT ![t] = At("blocked")]
                /\ UNCHANGED <<pending, health>>
           ELSE /\ tpc' = [tpc EXCEPT ![t] = AtSrc("assign", s)]
                /\ pending' = [list |-> parsed.list, stamp |-> StampOf(files, s)]
                /\ UNCHANGED health
    /\ UNCHANGED <<wopen, fsVars, snapVars, stopped, readVars, entries>>
    /\ MonitorFrame

\* a load that assigns its list to both snapshots of the monitor
LoadAssignBoth(t, s) ==
    /\ tpc[t] = AtSrc("assign", s)
    /\ CanLock(muR)
    /\ dhcpLeases' = pending.list
    /\ hostEntries' = pending.list
    /\ loaded' = [loaded EXCEPT ![s] = pending.stamp]
    /\ pending' = [list |-> <<>>, stamp |-> NoStamp]
    /\ health' = HealthAfter(t, FALSE)
    /\ tpc' = [tpc EXCEPT ![t] = After(t, s)]
    /\ UNCHANGED <<wopen, fsVars, stopped, readVars, entries>>
    /\ MonitorFrame

\* m.mu.Lock(); m.dhcpLeases = leases (m.hostEntries = entries); m.mu.Unlock()
LoadAssign(t, s) ==
    /\ tpc[t] = AtSrc("assign", s)
    /\ CanLock(muR)
    /\ IF s = "leases"
       THEN dhcpLeases' = pending.list /\ UNCHANGED hostEntries
       ELSE hostEntries' = pending.list /\ UNCHANGED dhcpLeases
    /\ loaded' = [loaded EXCEPT ![s] = pending.stamp]
    /\ pending' = [list |-> <<>>, stamp |-> NoStamp]
    /\ health' = HealthAfter(t, FALSE)
    /\ tpc' = [tpc EXCEPT ![t] = After(t, s)]
    /\ UNCHANGED <<wopen, fsVars, stopped, readVars, entries>>
    /\ MonitorFrame

\* m.staticManager.Load() called by Start or by watchFiles
LoadStatic(t) ==
    /\ tpc[t] = AtSrc("load", "static")
    /\ CanLock(smR)
    /\ LET r == ManagerLoad(entries, files["static"]) IN
        /\ entries' = r.entries
        /\ loaded' = [loaded EXCEPT !["static"] =
                        IF r.err THEN @ ELSE StampOf(files, "static")]
        /\ health' = HealthAfter(t, r.err)
    /\ tpc' = [tpc EXCEPT ![t] = After(t, "static")]
    /\ UNCHANGED <<wopen, fsVars, dhcpLeases, hostEntries, pending, stopped, readVars>>
    /\ MonitorFrame

\* ReloadStaticEntries called by a user of the monitor
ReloadStaticEntries ==
    /\ CanLock(smR)
    /\ LET r == ManagerLoad(entries, files["static"]) IN
        /\ entries' = r.entries
        /\ loaded' = [loaded EXCEPT !["static"] =
                        IF r.err THEN @ ELSE StampOf(files, "static")]
    /\ UNCHANGED <<fsVars, dhcpLeases, hostEntries, taskVars, readVars>>
    /\ MonitorFrame

\* go m.watchFiles()
Spawn ==
    /\ tpc["starter"] = At("spawn")
    /\ tpc' = [tpc EXCEPT !["starter"] = AtSrc("add", "leases"), !["watcher"] = At("select")]
    /\ UNCHANGED <<wopen, fsVars, snapVars, pending, stopped, health, readVars, entries>>
    /\ MonitorFrame

\* addFileToWatcher: a missing file is created empty, then the path is added
\* to the watcher, which fails when the watcher is closed
AddWatch(s) ==
    /\ tpc["starter"] = AtSrc("add", s)
    /\ files' = IF files[s].ok THEN files
                ELSE [files EXCEPT ![s] = [ok |-> TRUE, gen |-> @.gen + 1, lines |-> 0]]
    /\ watched' = IF wopen # "open" THEN watched ELSE watched \cup {s}
    /\ tpc' = [tpc EXCEPT !["starter"] =
                 CASE s = "leases" -> AtSrc("add", "hosts")
                   [] s = "hosts" -> AtSrc("add", "static")
                   [] OTHER -> At("done")]
    /\ UNCHANGED <<wopen, events, changes, snapVars, pending, stopped, health, readVars, entries>>
    /\ MonitorFrame

\* watchFiles receives an event: a Write of a source's path starts the
\* reload of that source, any other event is dropped
Dispatch ==
    /\ tpc["watcher"] = At("select")
    /\ events # <<>>
    /\ events' = Tail(events)
    /\ tpc' = [tpc EXCEPT !["watcher"] =
                 IF Head(events).op = "write" THEN AtSrc("load", Head(events).name)
                 ELSE At("select")]
    /\ UNCHANGED <<wopen, files, watched, changes, snapVars, pending, stopped, health, readVars, entries>>
    /\ MonitorFrame

\* Stop: close(m.stopCh); m.watcher.Close()
Stop ==
    /\ ~stopped
    /\ stopped' = TRUE
    /\ wopen' = IF wopen = "open" THEN "closed" ELSE wopen
    /\ events' = <<>>
    /\ UNCHANGED <<files, watched, changes, snapVars, tpc, pending, health, readVars, entries>>
    /\ MonitorFrame

\* Stop called on a monitor that was stopped before: close(m.stopCh) of a
\* closed channel panics, before the watcher and the log manager are reached
StopAgain ==
    /\ stopped
    /\ ~panicked
    /\ panicked' = TRUE
    /\ UNCHANGED <<parseVars, saveVars>>
    /\ UNCHANGED <<storeVars, lookupVars, monitorVars, held>>

\* watchFiles returns on the closed channels
WatchExit ==
    /\ tpc["watcher"] = At("select")
    /\ stopped
    /\ tpc' = [tpc EXCEPT !["watcher"] = At("exited")]
    /\ UNCHANGED <<wopen, fsVars, snapVars, pending, stopped, health, readVars, entries>>
    /\ MonitorFrame

-----------------------------------------------------------------------------
(* The read calls: GetDHCPLeases, GetHostEntries and GetStaticEntries      *)
(* (Manager.GetAll) take the read lock, make a list as long as the         *)
(* snapshot, copy the snapshot into it and return it.                      *)

\* copy(dst, src) into a list made with n elements
CopyN(n, list) ==
    [i \in 1..n |-> IF i <= Len(list) THEN list[i] ELSE [gen |-> 0 - 1, line |-> 0]]

\* RLock(), which blocks while a writer waits for the lock, and
\* make([]T, len(snapshot))
ReadBegin(r, s) ==
    /\ rpc[r] = "idle"
    /\ ~WriterWaiting(s)
    /\ rpc' = [rpc EXCEPT ![r] = "copy"]
    /\ rsrc' = [rsrc EXCEPT ![r] = s]
    /\ rn' = [rn EXCEPT ![r] = Len(Snapshot(s))]
    /\ rfloor' = [rfloor EXCEPT ![r] = seen[s]]
    /\ muR' = IF s = "static" THEN muR ELSE muR \cup {r}
    /\ smR' = IF s = "static" THEN smR \cup {r} ELSE smR
    /\ UNCHANGED <<rbuf, rstamp, seen>>
    /\ UNCHANGED <<fsVars, snapVars, taskVars, entries>>
    /\ MonitorFrame

\* the copy, from the list the snapshot variable holds now
ReadCopy(r) ==
    /\ rpc[r] = "copy"
    /\ rbuf' = [rbuf EXCEPT ![r] = CopyN(rn[r], Snapshot(rsrc[r]))]
    /\ rstamp' = [rstamp EXCEPT ![r] = loaded[rsrc[r]]]
    /\ rpc' = [rpc EXCEPT ![r] = "done"]
    /\ UNCHANGED <<muR, smR, rsrc, rn, rfloor, seen>>
    /\ UNCHANGED <<fsVars, snapVars, taskVars, entries>>
    /\ MonitorFrame

\* return, and the deferred RUnlock()
ReadReturn(r) ==
    /\ rpc[r] = "done"
    /\ muR' = muR \ {r}
    /\ smR' = smR \ {r}
    /\ seen' = [seen EXCEPT ![rsrc[r]] = IF StampLeq(@, rstamp[r]) THEN rstamp[r] ELSE @]
    /\ rpc' = [rpc EXCEPT ![r] = "idle"]
    /\ rn' = [rn EXCEPT ![r] = 0]
    /\ rbuf' = [rbuf EXCEPT ![r] = <<>>]
    /\ rstamp' = [rstamp EXCEPT ![r] = NoStamp]
    /\ rfloor' = [rfloor EXCEPT ![r] = NoStamp]
    /\ UNCHANGED rsrc
    /\ UNCHANGED <<fsVars, snapVars, taskVars, entries>>
    /\ MonitorFrame

\* a monitor made by New: nothing loaded, no goroutine, no reader
InitMonitor ==
    /\ files = [s \in Src |-> [ok |-> TRUE, gen |-> 0, lines |-> SnapLines]]
    /\ events = <<>>
    /\ watched = {}
    /\ changes = 0
    /\ dhcpLeases = <<>>
    /\ hostEntries = <<>>
    /\ loaded = [s \in Src |-> NoStamp]
    /\ tpc = [t \in Tasks |-> IF t = "starter" THEN At("new") ELSE At("none")]
    /\ wopen = "none"
    /\ pending = [list |-> <<>>, stamp |-> NoStamp]
    /\ stopped = FALSE
    /\ health = "ok"
    /\ muR = {}
    /\ smR = {}
    /\ rpc = [r \in Readers |-> "idle"]
    /\ rsrc = [r \in Readers |-> "leases"]
    /\ rn = [r \in Readers |-> 0]
    /\ rbuf = [r \in Readers |-> <<>>]
    /\ rstamp = [r \in Readers |-> NoStamp]
    /\ rfloor = [r \in Readers |-> NoStamp]
    /\ seen = [s \in Src |-> NoStamp]
    /\ held = <<>>

-----------------------------------------------------------------------------
(* What a caller does with a list it got from GetAll or GetByID.  The list *)
(* is a copy of the entry structs; a struct's MAC and IP are slices, so    *)
(* the copy refers to the same backing arrays as the store's entry.        *)

\* the observer keeps nothing of the store's calls
RecNone == [p \in Ops \X Errs |-> [op |-> "none", err |-> "-"]]

CopyInputs == {BaseEntry(AddrM1, AddrIP1, TRUE), BaseEntry(AddrM2, Nil, FALSE)}

\* Manager.GetAll
GetAll ==
    /\ held' = entries
    /\ UNCHANGED <<storeVars, lookupVars, monitorVars, ioVars>>

\* Manager.GetByID: entryCopy := entry; return &entryCopy
GetByID(id) ==
    /\ held' = IF FindByID(entries, id) = 0 THEN <<>> ELSE <<entries[FindByID(entries, id)]>>
    /\ UNCHANGED <<storeVars, lookupVars, monitorVars, ioVars>>

\* the caller assigns a field of an element: list[i].Enabled = !list[i].Enabled
CallerSetsField(i) ==
    /\ i \in 1..Len(held)
    /\ held' = [held EXCEPT ![i].Enabled = ~@]
    /\ UNCHANGED <<storeVars, lookupVars, monitorVars, ioVars>>

\* the caller writes the bytes of an element's MAC: copy(list[i].MAC, other)
CallerWritesMAC(i, v) ==
    /\ i \in 1..Len(held)
    /\ held[i].MAC # Nil
    /\ mem' = [mem EXCEPT ![held[i].MAC[1]] = v]
    /\ UNCHANGED <<entries, clock, last, held, lookupVars, monitorVars, ioVars>>

-----------------------------------------------------------------------------

-----------------------------------------------------------------------------
(* StaticDHCPEntry.ToDnsmasqLine: the line of the configuration file an    *)
(* entry is written as.  A line is a sequence of characters.               *)

\* net.HardwareAddr.String(): lower-case hexadecimal octets joined by colons
MACText(v) ==
    CASE v = "M1" ->
            <<"a", "a", ":", "0", "0", ":", "0", "0", ":", "0", "0", ":", "0", "0", ":", "0", "1">>
      [] v = "M2" ->
            <<"a", "b", ":", "0", "0", ":", "0", "0", ":", "0", "0", ":", "0", "0", ":", "0", "2">>
      [] OTHER ->
            <<"a", "c", ":", "0", "0", ":", "0", "0", ":", "0", "0", ":", "0", "0", ":", "0", "0",
              ":", "0", "0", ":", "0", "8">>

\* GetFormattedMAC: strings.ToUpper(e.MAC.String())
GetFormattedMAC(m, e) == IF e.MAC = Nil THEN <<>> ELSE ToUpper(MACText(Deref(m, e.MAC)))

\* net.IP.String()
IPText(v) ==
    CASE v = "IP1" -> <<"1", "0", ".", "0", ".", "0", ".", "1">>
      [] v = "IP2" -> <<"1", "0", ".", "0", ".", "0", ".", "2">>
      [] OTHER -> <<":", ":", "1">>

\* strings.Join
RECURSIVE Join(_, _)
Join(parts, sep) ==
    IF parts = <<>> THEN <<>>
    ELSE IF Len(parts) = 1 THEN parts[1]
    ELSE parts[1] \o sep \o Join(Tail(parts), sep)

DhcpHost == <<"d", "h", "c", "p", "-", "h", "o", "s", "t", "=">>

\* the values of an enabled entry's directive, in the order they are written
LineParts(m, e) ==
    (IF e.MAC # Nil THEN <<GetFormattedMAC(m, e)>> ELSE <<>>)
    \o (IF e.Tag # <<>> THEN <<<<"s", "e", "t", ":">> \o e.Tag>> ELSE <<>>)
    \o (IF e.IP # Nil THEN <<IPText(Deref(m, e.IP))>> ELSE <<>>)
    \o (IF e.Hostname # <<>> THEN <<e.Hostname>> ELSE <<>>)
    \o (IF e.LeaseTime # <<>> THEN <<e.LeaseTime>> ELSE <<>>)

ToDnsmasqLine(m, e) ==
    IF ~e.Enabled THEN <<"#", " ">> \o e.RawLine
    ELSE DhcpHost \o Join(LineParts(m, e), <<",">>)
         \o (IF e.Comment # <<>> THEN <<" ", "#", " ">> \o e.Comment ELSE <<>>)

InitStore ==
    /\ entries = <<>>
    /\ clock = 0
    /\ last = [op |-> "none", err |-> "-"]
    /\ mem = MemInit

\* no parse was asked for
InitParse ==
    /\ text = <<>>
    /\ lgot = [called |-> FALSE, now |-> 0, of |-> <<>>, list |-> <<>>]
    /\ leases = [op |-> "none", static |-> [ok |-> FALSE, lines |-> <<>>], out |-> <<>>]

\* no Save is under way; the static file holds what the empty store holds
InitSave ==
    /\ scopy = [busy |-> FALSE, list |-> <<>>]
    /\ sfile = <<>>
    /\ snotify = 0
    /\ panicked = FALSE

InitIO == InitParse /\ InitSave

\* a started program: an empty store and a resolver on an empty backing file
Init == InitStore /\ InitLookupWith(<<>>, FALSE) /\ InitMonitor /\ InitIO

\* a resolver built on any of the files, with or without preload
InitLookup ==
    /\ InitStore
    /\ InitMonitor
    /\ InitIO
    /\ \E file \in Files, preload \in BOOLEAN : InitLookupWith(file, preload)

\* a monitor made by New, on a resolver built with or without preload
InitMon ==
    /\ InitStore
    /\ InitMonitor
    /\ InitIO
    /\ \E preload \in BOOLEAN : InitLookupWith(MonitorOUI, preload)

StoreCalls(rec) ==
    \/ Tick
    \/ \E e \in Inputs : Add(e, rec)
    \/ \E id \in IDArgs, u \in Inputs : Update(id, u, rec)
    \/ \E id \in IDArgs : Delete(id, rec)
    \/ \E id \in IDArgs : Enable(id, rec)
    \/ \E id \in IDArgs : Disable(id, rec)

NextStore == StoreCalls(RecAll)
NextStoreAdd == StoreCalls(RecAdd)
NextStoreUpd == StoreCalls(RecUpd)

NextLookup ==
    \E c \in Callers :
        \/ \E mac \in MACInputs : LookupCall(c, mac)
        \/ LookupRLock(c)
        \/ LookupProbe(c)
        \/ SearchSeek(c)
        \/ \E n \in 1..Len(dbFile) : SearchRead(c, n)
        \/ SearchLine(c)
        \/ SearchEOF(c)
        \/ SearchLock(c)
        \/ LookupReturn(c)

\* Start, the watch goroutine, Stop and the changes of the files
MonitorSteps ==
    \/ StartBegin
    \/ \E t \in Tasks, s \in Src : LoadRead(t, s)
    \/ \E t \in Tasks, s \in Src : LoadAssign(t, s)
    \/ \E t \in Tasks : LoadStatic(t)
    \/ ReloadStaticEntries
    \/ Spawn
    \/ \E s \in Src : AddWatch(s)
    \/ Dispatch

NextMonitor ==
    \/ MonitorSteps
    \/ \E s \in Src : WriteFile(s, SnapLines)
    \/ \E s \in Src : RemoveFile(s)
    \/ StartFail
    \/ Stop
    \/ WatchExit

NextReaders ==
    \/ MonitorSteps
    \/ \E s \in Src, n \in 1..SnapLines : changes < MaxRewrites /\ WriteFile(s, n)
    \/ \E r \in Readers, s \in Src : ReadBegin(r, s)
    \/ \E r \in Readers : ReadCopy(r)
    \/ \E r \in Readers : ReadReturn(r)

NextCopyOut ==
    \/ \E e \in CopyInputs : Add(e, RecNone)
    \/ \E id \in IDArgs, u \in CopyInputs : Update(id, u, RecNone)
    \/ \E id \in IDArgs : Delete(id, RecNone)
    \/ \E id \in IDArgs : Enable(id, RecNone)
    \/ \E id \in IDArgs : Disable(id, RecNone)
    \/ GetAll
    \/ \E id \in IDArgs : GetByID(id)
    \/ \E i \in 1..MaxEntries : CallerSetsField(i)
    \/ \E i \in 1..MaxEntries, v \in {"M1", "M2"} : CallerWritesMAC(i, v)

\* the store, and a caller that changes the lists it was given
SpecCopyOut == Init /\ [][NextCopyOut]_vars

\* the monitor: Start, the watch goroutine, file changes, Stop
SpecMonitor == InitMon /\ [][NextMonitor]_vars

\* a step of the goroutine that runs watchFiles
WatcherStep ==
    \/ Dispatch
    \/ WatchExit
    \/ \E s \in Src : LoadRead("watcher", s)
    \/ \E s \in Src : LoadAssign("watcher", s)
    \/ LoadStatic("watcher")

\* a step of the caller of Start, after the watcher was made
StarterStep ==
    \/ \E s \in Src : LoadRead("starter", s)
    \/ \E s \in Src : LoadAssign("starter", s)
    \/ LoadStatic("starter")
    \/ Spawn
    \/ \E s \in Src : AddWatch(s)

\* the monitor with a caller of Start that is not held up from outside
SpecMonitorStart == SpecMonitor /\ WF_vars(StarterStep)

\* the monitor with a scheduler that lets the watchFiles goroutine run
\* whenever it can take a step
SpecMonitorFair == SpecMonitor /\ WF_vars(WatcherStep)

\* the monitor with both the caller of Start and the watchFiles goroutine
\* scheduled whenever they can take a step
SpecMonitorLive == SpecMonitor /\ WF_vars(StarterStep) /\ WF_vars(WatcherStep)

NextLifecycle ==
    \/ MonitorSteps
    \/ \E s \in Src : WriteFile(s, SnapLines)
    \/ StartFail
    \/ Stop
    \/ StopAgain
    \/ WatchExit

\* the monitor with callers of Stop in every state of its life
SpecLifecycle == InitMon /\ [][NextLifecycle]_vars

\* the monitor with readers calling the Get methods while it reloads
SpecReaders == InitMon /\ [][NextReaders]_vars

\* the entries that are written as lines: valid, with and without the
\* optional fields
LineInputs ==
    {[BaseEntry(AddrM1, AddrIP1, TRUE) EXCEPT !.Hostname = <<"1", "h">>],
     [BaseEntry(AddrM1, AddrIP1, TRUE) EXCEPT !.Hostname = <<>>, !.LeaseTime = <<"1", "h">>],
     BaseEntry(AddrM1, AddrIP2, FALSE),
     RichEntry}

\* the observer keeps whether the call that returned was a disable that
\* succeeded
RecToggle ==
    [p \in Ops \X Errs |->
        IF p = <<"disable", "none">> THEN [op |-> "disable", err |-> "none"]
        ELSE [op |-> "other", err |-> "-"]]

NextLines ==
    \/ Tick
    \/ \E e \in LineInputs : Add(e, RecToggle)
    \/ \E id \in IDArgs : Delete(id, RecToggle)
    \/ \E id \in IDArgs : Enable(id, RecToggle)
    \/ \E id \in IDArgs : Disable(id, RecToggle)

\* a store whose entries are added, toggled and deleted, never updated
SpecLines == Init /\ [][NextLines]_vars

-----------------------------------------------------------------------------
(* Manager.Validate: the report on all entries                             *)

MaxListed == 3      \* the entries of the store that is validated

\* macMap[macStr] / ipMap[ipStr] at entry i: the first enabled entry before
\* i that has the same MAC (kind "dup_mac") or the same IP (kind "dup_ip"),
\* 0 when there is none
FirstSame(m, es, i, kind) ==
    LET same(j) ==
            /\ es[j].Enabled
            /\ IF kind = "dup_mac"
               THEN es[j].MAC # Nil /\ MACString(m, es[j].MAC) = MACString(m, es[i].MAC)
               ELSE es[j].IP # Nil /\ IPEqual(m, es[j].IP, es[i].IP)
    IN  IF \E j \in 1..(i - 1) : same(j)
        THEN CHOOSE j \in 1..(i - 1) : same(j) /\ \A k \in 1..(j - 1) : ~same(k)
        ELSE 0

\* the errors one turn of the loop appends, positions counted from 1
EntryErrors(m, es, i) ==
    (IF ~Validate(m, es[i]) THEN <<[kind |-> "invalid", a |-> i, b |-> i]>> ELSE <<>>)
    \o (IF es[i].Enabled /\ es[i].MAC # Nil /\ FirstSame(m, es, i, "dup_mac") # 0
        THEN <<[kind |-> "dup_mac", a |-> FirstSame(m, es, i, "dup_mac"), b |-> i]>>
        ELSE <<>>)
    \o (IF es[i].Enabled /\ es[i].IP # Nil /\ FirstSame(m, es, i, "dup_ip") # 0
        THEN <<[kind |-> "dup_ip", a |-> FirstSame(m, es, i, "dup_ip"), b |-> i]>>
        ELSE <<>>)

RECURSIVE ErrorsUpTo(_, _, _)
ErrorsUpTo(m, es, n) ==
    IF n = 0 THEN <<>> ELSE ErrorsUpTo(m, es, n - 1) \o EntryErrors(m, es, n)

\* Manager.Validate
ValidateAll(m, es) == ErrorsUpTo(m, es, Len(es))

\* a caller calls Manager.Validate and keeps the errors
ValidateAllCall ==
    /\ last' = [op |-> "validate", err |-> ValidateAll(mem, entries)]
    /\ UNCHANGED <<entries, clock, mem>>
    /\ UNCHANGED <<lookupVars, monitorVars, held, ioVars>>

\* Manager.Add on a store of up to MaxListed entries
AddListed(e) ==
    LET r == AddOp(mem, entries, e, clock) IN
    /\ Len(r.entries) <= MaxListed
    /\ entries' = r.entries
    /\ last' = RecNone[<<"add", r.err>>]
    /\ UNCHANGED <<clock, mem>>
    /\ UNCHANGED <<lookupVars, monitorVars, held, ioVars>>

ListedInputs ==
    {BaseEntry(AddrM1, AddrIP1, TRUE), BaseEntry(AddrM1, AddrIP2, TRUE),
     BaseEntry(AddrM2, AddrIP1, FALSE)}

NextValidate ==
    \/ Tick
    \/ \E e \in ListedInputs : AddListed(e)
    \/ \E id \in IDArgs : Enable(id, RecNone)
    \/ \E id \in IDArgs : Disable(id, RecNone)
    \/ ValidateAllCall

\* a store that is filled, toggled and validated
SpecValidate == Init /\ [][NextValidate]_vars

-----------------------------------------------------------------------------
(* The lease parser (internal/dhcp/parser.go).  A text is a sequence of    *)
(* one-character strings.  net.ParseMAC and net.ParseIP are modelled on    *)
(* the addresses of the model: a token is an address when it is the text   *)
(* of one of them in either letter case, and malformed otherwise.          *)

MaxTextLines == 2   \* the lines of a leases file
MaxValues == 2      \* the values after the MAC in a dhcp-host directive

\* strings.ToLower, character by character
LowerChar(ch) ==
    CASE ch = "A" -> "a" [] ch = "B" -> "b" [] ch = "C" -> "c" [] ch = "D" -> "d"
      [] ch = "E" -> "e" [] ch = "F" -> "f" [] ch = "H" -> "h" [] ch = "L" -> "l"
      [] ch = "O" -> "o" [] ch = "P" -> "p" [] ch = "S" -> "s" [] ch = "T" -> "t"
      [] ch = "G" -> "g"
      [] OTHER -> ch

ToLower(str) == [i \in 1..Len(str) |-> LowerChar(str[i])]

\* unicode.IsSpace, for the characters of the model
Space == {" ", "\t", "\r", "\n"}

\* strings.TrimRightFunc(s, unicode.IsSpace)
RECURSIVE TrimRight(_)
TrimRight(s) ==
    IF s # <<>> /\ s[Len(s)] \in Space THEN TrimRight(SubSeq(s, 1, Len(s) - 1)) ELSE s

RECURSIVE TrimLeft(_)
TrimLeft(s) == IF s # <<>> /\ s[1] \in Space THEN TrimLeft(Tail(s)) ELSE s

\* strings.TrimSpace
TrimSpace(s) == TrimLeft(TrimRight(s))

\* strings.IndexAny, 1-based; 0 when no character of chars occurs in s
IndexAny(s, chars) ==
    IF \E i \in 1..Len(s) : s[i] \in chars
    THEN CHOOSE i \in 1..Len(s) : s[i] \in chars /\ \A k \in 1..(i - 1) : s[k] \notin chars
    ELSE 0

\* strings.Split with a separator of one character
RECURSIVE Split(_, _)
Split(s, sep) ==
    LET i == IndexAny(s, {sep})
    IN  IF i = 0 THEN <<s>>
        ELSE <<SubSeq(s, 1, i - 1)>> \o Split(SubSeq(s, i + 1, Len(s)), sep)

\* strings.Fields
RECURSIVE SplitFields(_)
SplitFields(s) ==
    LET t == TrimLeft(s)
        n == IndexAny(t, Space)
    IN  IF t = <<>> THEN <<>>
        ELSE IF n = 0 THEN <<t>>
        ELSE <<SubSeq(t, 1, n - 1)>> \o SplitFields(SubSeq(t, n, Len(t)))

Digits == {"0", "1", "2", "3", "4", "5", "6", "7", "8", "9"}

DigitVal(ch) ==
    CASE ch = "0" -> 0 [] ch = "1" -> 1 [] ch = "2" -> 2 [] ch = "3" -> 3 [] ch = "4" -> 4
      [] ch = "5" -> 5 [] ch = "6" -> 6 [] ch = "7" -> 7 [] ch = "8" -> 8 [] OTHER -> 9

RECURSIVE Decimal(_)
Decimal(s) ==
    IF s = <<>> THEN 0 ELSE 10 * Decimal(SubSeq(s, 1, Len(s) - 1)) + DigitVal(s[Len(s)])

\* strconv.ParseInt(tok, 10, 64), for the tokens of the model (all within 64 bits)
ParseInt(tok) ==
    LET body == IF tok # <<>> /\ tok[1] \in {"+", "-"} THEN Tail(tok) ELSE tok
    IN  IF body # <<>> /\ \A i \in 1..Len(body) : body[i] \in Digits
        THEN [ok |-> TRUE, v |-> IF tok[1] = "-" THEN 0 - Decimal(body) ELSE Decimal(body)]
        ELSE [ok |-> FALSE, v |-> 0]

MACValues == {"M1", "M2", "M8"}
IPValues == {"IP1", "IP2", "IP6"}

\* net.ParseMAC: the address, or an error
ParseMAC(tok) ==
    IF \E v \in MACValues : MACText(v) = ToLower(tok)
    THEN [ok |-> TRUE, mac |-> CHOOSE v \in MACValues : MACText(v) = ToLower(tok)]
    ELSE [ok |-> FALSE, mac |-> "nil"]

\* net.ParseIP: the address, IPv4 or IPv6, or nil
ParseIP(tok) ==
    IF \E v \in IPValues : IPText(v) = ToLower(tok)
    THEN CHOOSE v \in IPValues : IPText(v) = ToLower(tok)
    ELSE "nil"

\* time.Time{}: before every timestamp of the model
ZeroTime == 0 - 999999

\* time.Hour * 24 * 365 * 10, in seconds
TenYears == 315360000

\* Database.Lookup on a preloaded resolver: it reads the cache and changes nothing
LookupPreloaded(c, mac) == ProbeCache(c, TRUE, ToUpper(mac)).entry

\* var lease models.DHCPLease
ZeroLease ==
    [Expire |-> ZeroTime, Remain |-> 0, MAC |-> "nil", Info |-> NoEntry, IP |-> "nil",
     Name |-> <<>>, ID |-> <<>>, Static |-> FALSE, Tag |-> <<>>]

\* Parser.parseLeaseLine: it returns no error for any fields
parseLeaseLine(fields, c, now) ==
    LET ts == ParseInt(fields[1])
        mac == ParseMAC(fields[2])
    IN  [ZeroLease EXCEPT
            !.Expire = IF ts.ok THEN ts.v ELSE ZeroTime,
            !.Remain = IF ts.ok THEN ts.v - now ELSE 0,
            !.MAC = mac.mac,
            !.Info = IF mac.ok THEN LookupPreloaded(c, fields[2]) ELSE NoEntry,
            !.IP = ParseIP(fields[3]),
            !.Name = fields[4],
            !.ID = IF Len(fields) > 4 THEN fields[5] ELSE <<>>]

\* the loop of parseStaticLine over values[i..]
RECURSIVE StaticValues(_, _, _)
StaticValues(lease, values, i) ==
    IF i > Len(values) THEN lease
    ELSE LET value == values[i]
             tagParts == Split(ToLower(value), ":")
         IN  IF /\ IndexAny(value, {":"}) # 0
                /\ Len(tagParts) = 2
                /\ tagParts[1] \in {<<"s", "e", "t">>, <<"t", "a", "g">>}
             THEN StaticValues([lease EXCEPT !.Tag = tagParts[2]], values, i + 1)
             ELSE IF ParseIP(value) # "nil"
             THEN StaticValues([lease EXCEPT !.IP = ParseIP(value)], values, i + 1)
             ELSE StaticValues([lease EXCEPT !.Name = value, !.ID = value], values, i + 1)

\* Parser.parseStaticLine
parseStaticLine(line0, c, now) ==
    LET idx == IndexAny(line0, {"#", ";"})
        line == IF idx # 0 THEN TrimRight(SubSeq(line0, 1, idx - 1)) ELSE line0
        parts == Split(line, "=")
        values == Split(parts[2], ",")
        mac == ParseMAC(values[1])
    IN  IF Len(parts) # 2 \/ ToLower(parts[1]) # <<"d", "h", "c", "p", "-", "h", "o", "s", "t">>
        THEN [ok |-> FALSE, lease |-> ZeroLease]
        ELSE IF Len(values) < 2 THEN [ok |-> FALSE, lease |-> ZeroLease]
        ELSE IF ~mac.ok THEN [ok |-> FALSE, lease |-> ZeroLease]
        ELSE [ok |-> TRUE,
              lease |-> [StaticValues([ZeroLease EXCEPT
                                          !.MAC = mac.mac,
                                          !.Info = LookupPreloaded(c, values[1]),
                                          !.Static = TRUE], values, 2)
                            EXCEPT !.Expire = now + TenYears, !.Remain = TenYears]]

\* Parser.parseStaticLeases over the lines of the static file
RECURSIVE parseStaticLeases(_, _, _)
parseStaticLeases(lines, c, now) ==
    IF lines = <<>> THEN <<>>
    ELSE LET line == TrimSpace(lines[1])
             rest == parseStaticLeases(Tail(lines), c, now)
         IN  IF line = <<>> \/ line[1] = "#" THEN rest
             ELSE IF ~parseStaticLine(line, c, now).ok THEN rest
             ELSE <<parseStaticLine(line, c, now).lease>> \o rest

\* the loop of ParseLeases over the lines of the content
RECURSIVE LeaseLines(_, _, _)
LeaseLines(lines, c, now) ==
    IF lines = <<>> THEN <<>>
    ELSE LET fields == SplitFields(TrimSpace(lines[1]))
             rest == LeaseLines(Tail(lines), c, now)
         IN  IF Len(fields) < 5 THEN rest
             ELSE <<parseLeaseLine(fields, c, now)>> \o rest

\* the static file as ParseLeases finds it: not configured, unreadable, or lines
NoStatic == [ok |-> FALSE, lines |-> <<>>]

\* Parser.ParseLeases, on the text of the content
ParseLeasesText(content, static, c, now) ==
    LeaseLines(Split(content, "\n"), c, now)
        \o (IF static.ok THEN parseStaticLeases(static.lines, c, now) ELSE <<>>)

\* the tokens and lines of the leases files of the model
Words(toks) == Join(toks, <<" ">>)

TsGood == <<"1", "0", "0">>

LeaseLinePool ==
    {Words(<<TsGood, MACText("M1"), IPText("IP1"), <<"h">>, <<"*">>>>),
     Words(<<TsGood, ToUpper(MACText("M2")), IPText("IP2"), <<"g">>, <<"0", "1">>, <<"x">>>>),
     Words(<<<<"x">>, MACText("M1"), IPText("IP1"), <<"h">>, <<"*">>>>),
     Words(<<TsGood, <<"z", "z">>, IPText("IP1"), <<"h">>, <<"*">>>>),
     Words(<<TsGood, MACText("M1"), <<"1", ".", "2">>, <<"h">>, <<"*">>>>),
     Words(<<TsGood, MACText("M1"), IPText("IP1"), <<"h">>>>),
     <<" ">>}

RECURSIVE TextsOf(_)
TextsOf(n) ==
    IF n = 0 THEN {<<>>}
    ELSE TextsOf(n - 1)
            \cup {Join(<<t, l>>, <<"\n">>) : t \in TextsOf(n - 1) \ {<<>>}, l \in LeaseLinePool}
            \cup LeaseLinePool

LeaseTexts == TextsOf(MaxTextLines)

Commas(vals) == Join(vals, <<",">>)

Directive(vals) == DhcpHost \o Commas(vals)

StaticTexts ==
    {NoStatic,
     [ok |-> TRUE, lines |-> <<>>],
     [ok |-> TRUE, lines |-> << <<"#", " ", "x">>,
                                Directive(<<MACText("M2"), IPText("IP2"), <<"h">>>>) >>]}

\* a call of ParseLeases on the content, with the static file as it is then
ParseLeasesCall(st) ==
    /\ leases' = [op |-> "leases", static |-> st, out |-> ParseLeasesText(text, st, cache, clock)]
    /\ UNCHANGED <<text, lgot, saveVars, panicked>>
    /\ UNCHANGED <<storeVars, lookupVars, monitorVars, held>>

\* a call of parseStaticLine on a line
ParseStaticLineCall ==
    /\ leases' = [op |-> "static", static |-> NoStatic,
                  out |-> IF parseStaticLine(text, cache, clock).ok
                          THEN <<parseStaticLine(text, cache, clock).lease>> ELSE <<>>]
    /\ UNCHANGED <<text, lgot, saveVars, panicked>>
    /\ UNCHANGED <<storeVars, lookupVars, monitorVars, held>>

\* the values after the MAC in the directives of the model
ValuePool ==
    {<<"s", "e", "t", ":", "a">>, <<"t", "a", "g", ":", "L", "a", "b">>,
     IPText("IP1"), IPText("IP6"), <<"h">>, <<"H", "2">>}

RECURSIVE ValueLists(_)
ValueLists(n) ==
    IF n = 0 THEN {<<>>}
    ELSE ValueLists(n - 1) \cup {Append(l, v) : l \in ValueLists(n - 1), v \in ValuePool}

Directives ==
    {Directive(<<m>> \o l) : m \in {MACText("M1"), <<"z", "z">>}, l \in ValueLists(MaxValues)}
        \cup {Directive(<<MACText("M1"), IPText("IP1"), <<"h">>>>) \o <<" ", "#", " ", "c">>,
              <<"h", "o", "s", "t", "=">> \o Commas(<<MACText("M1"), <<"h">>>>)}

\* a parser made on a preloaded resolver
InitParser(texts) ==
    /\ InitStore
    /\ InitMonitor
    /\ InitSave
    /\ InitLookupWith(MonitorOUI, TRUE)
    /\ text \in texts
    /\ leases = [op |-> "none", static |-> NoStatic, out |-> <<>>]
    /\ lgot = [called |-> FALSE, now |-> 0, of |-> <<>>, list |-> <<>>]
    /\ panicked = FALSE

NextParse == \E st \in StaticTexts : ParseLeasesCall(st)

\* ParseLeases on the leases files of the model
SpecParse == InitParser(LeaseTexts) /\ [][NextParse]_vars

NextDirective == ParseStaticLineCall

\* parseStaticLine on the dhcp-host lines of the model
SpecDirective == InitParser(Directives) /\ [][NextDirective]_vars

\* the least time.Duration, in whole seconds, as the least integer of the model
MinDuration == 0 - 2147483647

\* time.Until(t) in milliseconds, for the time now in milliseconds: Sub
\* saturates when the difference does not fit, as it does for the zero Time
Until(t, now) == IF t = ZeroTime THEN MinDuration * 1 ELSE t * 1000 - now

\* Duration.Truncate(time.Second), in seconds: rounding toward zero
TruncateSecond(ms) ==
    IF ms = MinDuration THEN MinDuration
    ELSE IF ms >= 0 THEN ms \div 1000 ELSE 0 - ((0 - ms) \div 1000)

\* a Get that returns the snapshot with the Remain of the time it was parsed
GetDHCPLeasesStored(list, now) == list

\* Monitor.GetDHCPLeases on the snapshot list, at the time now in milliseconds
GetDHCPLeases(list, now) ==
    [i \in 1..Len(list) |->
        IF ~list[i].Static
        THEN [list[i] EXCEPT !.Remain = TruncateSecond(Until(list[i].Expire, now))]
        ELSE list[i]]

\* the parts of a second the clock can be at, in milliseconds
Fractions == {0, 500}

\* a call of GetDHCPLeases on the list the last ParseLeases returned
GetDHCPLeasesCall(frac) ==
    /\ leases.op = "leases"
    /\ lgot' = [called |-> TRUE, now |-> clock * 1000 + frac, of |-> leases.out,
               list |-> GetDHCPLeases(leases.out, clock * 1000 + frac)]
    /\ UNCHANGED <<text, leases, saveVars, panicked>>
    /\ UNCHANGED <<storeVars, lookupVars, monitorVars, held>>

\* leases files with leases that end at second 0, at second 1 and later,
\* and one with no readable end
RemainPool ==
    {Words(<<<<"0">>, MACText("M1"), IPText("IP1"), <<"h">>, <<"*">>>>),
     Words(<<<<"1">>, MACText("M2"), IPText("IP2"), <<"g">>, <<"*">>>>),
     Words(<<TsGood, MACText("M1"), IPText("IP1"), <<"h">>, <<"*">>>>),
     Words(<<<<"x">>, MACText("M1"), IPText("IP1"), <<"h">>, <<"*">>>>)}

RemainTexts ==
    RemainPool \cup {Join(<<t, l>>, <<"\n">>) : t \in RemainPool, l \in RemainPool}

NextRemain ==
    \/ Tick
    \/ \E st \in StaticTexts : ParseLeasesCall(st)
    \/ \E frac \in Fractions : GetDHCPLeasesCall(frac)

\* the leases are loaded and read while the clock runs
SpecRemain == InitParser(RemainTexts) /\ [][NextRemain]_vars

-----------------------------------------------------------------------------
(* Manager.Save next to the calls that change the store, with the monitor  *)
(* running and watching the static file.  static.Parser is modelled from   *)
(* the serialization format and the round-trip law: WriteFile writes one   *)
(* line per entry and ParseFile gives back the entries written.            *)

MaxNotify == 1      \* the writes of the static file waiting for watchFiles

\* static.Parser.WriteFile: a line for every entry
WrittenFile(m, es) ==
    [i \in 1..Len(es) |-> [line |-> ToDnsmasqLine(m, es[i]), entry |-> es[i]]]

\* static.Parser.ParseFile of a file WriteFile wrote
ParsedFile(file) == [i \in 1..Len(file) |-> file[i].entry]

\* Save, from RLock to RUnlock: entries := copy of m.entries
SaveCopy ==
    /\ ~scopy.busy
    /\ scopy' = [busy |-> TRUE, list |-> entries]
    /\ UNCHANGED <<sfile, snotify, parseVars, panicked>>
    /\ UNCHANGED <<storeVars, lookupVars, monitorVars, held>>

\* Save, after RUnlock: WriteFile(m.filename, entries); the watcher reports
\* the write
SaveWrite ==
    /\ scopy.busy
    /\ snotify < MaxNotify
    /\ sfile' = WrittenFile(mem, scopy.list)
    /\ snotify' = snotify + 1
    /\ scopy' = [busy |-> FALSE, list |-> <<>>]
    /\ UNCHANGED <<parseVars, panicked>>
    /\ UNCHANGED <<storeVars, lookupVars, monitorVars, held>>

\* watchFiles receives a Write of the static file: staticManager.Load()
WatchReload ==
    /\ snotify > 0
    /\ snotify' = snotify - 1
    /\ entries' = ParsedFile(sfile)
    /\ UNCHANGED <<scopy, sfile, parseVars, panicked>>
    /\ UNCHANGED <<clock, last, mem, lookupVars, monitorVars, held>>

SaveInputs == {BaseEntry(AddrM1, AddrIP1, TRUE)}

NextSave ==
    \/ Tick
    \/ \E e \in SaveInputs : Add(e, RecNone)
    \/ \E id \in IDArgs, u \in SaveInputs : Update(id, u, RecNone)
    \/ \E id \in IDArgs : Delete(id, RecNone)
    \/ \E id \in IDArgs : Enable(id, RecNone)
    \/ \E id \in IDArgs : Disable(id, RecNone)
    \/ SaveCopy
    \/ SaveWrite
    \/ WatchReload

\* the store's calls, Save and the reloads its writes cause
SpecSave == Init /\ [][NextSave]_vars

\* concurrent Lookup calls on one resolver
SpecLookup == InitLookup /\ [][NextLookup]_vars

\* a line longer than the 64 KiB a bufio.Scanner holds: Scan() returns false
\* on it and scanner.Err() is ErrTooLong
OversizeLine == [ok |-> FALSE, entry |-> NoEntry]

\* the lines scanner.Scan() returns before it stops
RECURSIVE Scanned(_)
Scanned(lines) ==
    IF lines = <<>> \/ Head(lines) = OversizeLine THEN <<>>
    ELSE <<Head(lines)>> \o Scanned(Tail(lines))

\* preloadDatabase: the records of the lines scanned go into the cache, then
\* db.preloaded = true, then return scanner.Err()
preloadDatabase(file) ==
    [cache |-> PreloadFrom(DefaultCache, Scanned(file)),
     preloaded |-> TRUE,
     off |-> Len(Scanned(file)),
     err |-> Scanned(file) # file]

\* backing stores, one of them with a line the scanner cannot hold
PreloadFiles ==
    {<<Line(<<"A">>, "A Corp"), Line(<<"1", "2">>, "12 Corp")>>,
     <<Line(<<"A">>, "A Corp"), OversizeLine, Line(<<"1", "2">>, "12 Corp")>>}

\* NewDatabase with preload: the error of preloadDatabase is logged and the
\* resolver is returned; without preload: on a store every line of which
\* the scanner can return
InitPreload ==
    /\ InitStore
    /\ InitMonitor
    /\ InitIO
    /\ \E file \in PreloadFiles, preload \in BOOLEAN :
        /\ ~preload => Scanned(file) = file
        /\ dbFile = file
        /\ preloaded = IF preload THEN preloadDatabase(file).preloaded ELSE FALSE
        /\ cache = IF preload THEN preloadDatabase(file).cache ELSE DefaultCache
        /\ fileOff = IF preload THEN preloadDatabase(file).off ELSE 0
        /\ rlock = {}
        /\ wpend = {}
        /\ lpc = [c \in Callers |-> "idle"]
        /\ lmac = [c \in Callers |-> <<>>]
        /\ lbuf = [c \in Callers |-> <<>>]
        /\ lfound = [c \in Callers |-> NoEntry]
        /\ lret = [c \in Callers |-> NoEntry]
        /\ lmiss = [c \in Callers |-> FALSE]

\* Lookup calls on a resolver whose preload may have stopped early
SpecPreload == InitPreload /\ [][NextLookup]_vars

\* backing stores, one of them with a record whose prefix is the text of a
\* key initializeDefaults has set
SentinelFiles ==
    {<<Line(<<"A">>, "A Corp")>>,
     <<Line(KeyPrivate("2"), "Shadow Corp"), Line(<<"A">>, "A Corp")>>}

\* a resolver built on one of these stores, with or without preload
InitSentinel ==
    /\ InitStore
    /\ InitMonitor
    /\ InitIO
    /\ \E file \in SentinelFiles, preload \in BOOLEAN : InitLookupWith(file, preload)

SpecSentinel == InitSentinel /\ [][NextLookup]_vars

\* a resolver that was not preloaded, over a backing store that is empty or
\* holds records
InitScan ==
    /\ InitStore
    /\ InitMonitor
    /\ InitIO
    /\ \E file \in {<<>>, <<Line(<<"a", "B">>, "AB Corp")>>} :
            InitLookupWith(file, FALSE)

\* the addresses looked up while the backing store grows
ScanInputs == {<<"c">>, <<"d", "0">>}

NextScan ==
    \/ \E c \in Callers, mac \in ScanInputs : LookupCall(c, mac)
    \/ \E c \in Callers : LookupRLock(c)
    \/ \E c \in Callers : LookupProbe(c)
    \/ \E c \in Callers : SearchSeek(c)
    \/ \E c \in Callers, n \in 1..Len(dbFile) : SearchRead(c, n)
    \/ \E c \in Callers : SearchLine(c)
    \/ \E c \in Callers : SearchEOF(c)
    \/ \E c \in Callers : SearchLock(c)
    \/ \E c \in Callers : LookupReturn(c)
    \/ \E line \in AppendLines : AppendStore(line)

\* the steps of caller c's Lookup once it was called
CallerStep(c) ==
    \/ LookupRLock(c)
    \/ LookupProbe(c)
    \/ SearchSeek(c)
    \/ \E n \in 1..Len(dbFile) : SearchRead(c, n)
    \/ SearchLine(c)
    \/ SearchEOF(c)
    \/ SearchLock(c)
    \/ LookupReturn(c)

\* Lookup calls on a backing store that grows, every caller's goroutine
\* running whenever it can take a step
SpecScan == InitScan /\ [][NextScan]_vars /\ \A c \in Callers : WF_vars(CallerStep(c))

\* sequential calls on a store that starts empty
SpecStore == Init /\ [][NextStore]_vars
SpecStoreAdd == Init /\ [][NextStoreAdd]_vars
SpecStoreUpd == Init /\ [][NextStoreUpd]_vars

\* entries that break each rule of Validate
BrokenInputs ==
    {BaseEntry(Nil, AddrIP1, TRUE),
     BaseEntry(AddrM8, AddrIP1, TRUE),
     [BaseEntry(AddrM1, Nil, TRUE) EXCEPT !.Hostname = <<>>],
     BaseEntry(AddrM1, AddrIP6, TRUE),
     [BaseEntry(AddrM1, AddrIP1, TRUE) EXCEPT !.Hostname = [i \in 1..(HostnameMax + 1) |-> "h"]],
     [BaseEntry(AddrM1, AddrIP1, TRUE) EXCEPT !.Hostname = <<"h", " ">>]}

SafeInputs ==
    {BaseEntry(AddrM1, AddrIP1, TRUE), BaseEntry(AddrM1, AddrIP2, FALSE),
     BaseEntry(AddrM2, AddrIP1, TRUE)} \cup BrokenInputs

NextStoreSafe ==
    \/ Tick
    \/ \E e \in SafeInputs : Add(e, RecAll)
    \/ \E id \in IDArgs, u \in SafeInputs : Update(id, u, RecAll)
    \/ \E id \in IDArgs : Delete(id, RecAll)
    \/ \E id \in IDArgs : Enable(id, RecAll)
    \/ \E id \in IDArgs : Disable(id, RecAll)

\* the calls of the store with entries that keep or break the rules
SpecStoreSafe == Init /\ [][NextStoreSafe]_vars

-----------------------------------------------------------------------------
(* Static store: uniqueness, identifiers, add                              *)

SameMAC(es, i, j) == MACString(mem, es[i].MAC) = MACString(mem, es[j].MAC)

SameIP(es, i, j) ==
    es[i].IP # Nil /\ es[j].IP # Nil /\ Deref(mem, es[i].IP) = Deref(mem, es[j].IP)

\* C2: after any sequence of add, update, delete, enable and disable calls on
\* a store that started empty, no two enabled entries have the same MAC and no
\* two have the same non-null IP.
C2_EnabledUnique ==
    \A i, j \in 1..Len(entries) :
        (i # j /\ entries[i].Enabled /\ entries[j].Enabled)
            => (~SameMAC(entries, i, j) /\ ~SameIP(entries, i, j))

\* C3: the ids of the stored entries are pairwise distinct.
C3_IDsDistinct ==
    \A i, j \in 1..Len(entries) : i # j => entries[i].ID # entries[j].ID

\* the new entry's MAC is the MAC of a stored enabled entry
HoldsMAC(es, e) ==
    e.MAC # Nil /\ \E i \in 1..Len(es) :
        es[i].Enabled /\ Deref(mem, es[i].MAC) = Deref(mem, e.MAC)

\* the new entry's non-null IP is the IP of a stored enabled entry
HoldsIP(es, e) ==
    e.IP # Nil /\ \E i \in 1..Len(es) :
        es[i].Enabled /\ es[i].IP # Nil /\ Deref(mem, es[i].IP) = Deref(mem, e.IP)

\* what a successful add appends: the argument with the id of the current
\* second and the next line number
Appended(es, e, now) == [e EXCEPT !.ID = now, !.LineNumber = Len(es) + 1]

\* C4 as stated: add fails with a conflict error and leaves the list unchanged
\* whenever an enabled stored entry has the new entry's MAC or its non-null IP;
\* otherwise a valid entry is appended with the id add assigns.
C4_AddConflictAlways ==
    \A e \in Inputs :
        LET r == AddOp(mem, entries, e, clock) IN
        IF HoldsMAC(entries, e) \/ HoldsIP(entries, e)
        THEN r.err \in ConflictErrs /\ r.entries = entries
        ELSE Validate(mem, e) =>
                (r.err = "none" /\ r.entries = Append(entries, Appended(entries, e, clock)))

\* C4 amended: the same for an entry that passes validation; an entry that
\* fails validation is rejected as invalid, list unchanged, also when it
\* duplicates an enabled entry.
C4_AddConflictValid ==
    \A e \in Inputs :
        LET r == AddOp(mem, entries, e, clock) IN
        IF ~Validate(mem, e)
        THEN r.err = "invalid" /\ r.entries = entries
        ELSE IF HoldsMAC(entries, e) \/ HoldsIP(entries, e)
        THEN r.err \in ConflictErrs /\ r.entries = entries
        ELSE r.err = "none" /\ r.entries = Append(entries, Appended(entries, e, clock))

\* an add was refused for a conflict while an enabled entry is stored
C4_Witness ==
    /\ last = [op |-> "add", err |-> "conflict"]
    /\ \E i \in 1..Len(entries) : entries[i].Enabled

\* a successful add was the last call: its entry is the newest of the list
FirstAdded == last = [op |-> "add", err |-> "none"] /\ Len(entries) >= 1

Newest == entries[Len(entries)]

\* the valid entries with the newest entry's MAC and another IP, which the
\* store as it was before the newest entry would have accepted
SecondOfPair ==
    {e \in ValidInputs :
        /\ Deref(mem, e.MAC) = Deref(mem, Newest.MAC)
        /\ e.IP # Nil /\ Newest.IP # Nil /\ Deref(mem, e.IP) # Deref(mem, Newest.IP)
        /\ AddErr(mem, SubSeq(entries, 1, Len(entries) - 1), e) = "none"}

\* C5 as stated: of two valid entries with the same MAC and different IPs
\* added in succession, the second add fails with a conflict when both are
\* enabled, and succeeds when exactly one of the two is disabled, whichever.
C5_OneDisabledEither ==
    FirstAdded =>
        \A e \in SecondOfPair :
            LET r == AddOp(mem, entries, e, clock) IN
            /\ (Newest.Enabled /\ e.Enabled) => r.err \in ConflictErrs
            /\ (Newest.Enabled # e.Enabled) =>
                    (r.err = "none" /\ r.entries = Append(entries, Appended(entries, e, clock)))

\* C5 amended: the second add fails with a MAC conflict, list unchanged, when
\* the entry added first is enabled, whatever the second's flag; it succeeds
\* when the entry added first is disabled.
C5_FirstDecides ==
    FirstAdded =>
        \A e \in SecondOfPair :
            LET r == AddOp(mem, entries, e, clock) IN
            /\ Newest.Enabled => (r.err = "mac_exists" /\ r.entries = entries)
            /\ ~Newest.Enabled =>
                    (r.err = "none" /\ r.entries = Append(entries, Appended(entries, e, clock)))

\* two adds in succession succeeded: the two newest entries have the same MAC
\* and different IPs, the first of them disabled
C5_Witness ==
    /\ last = [op |-> "add", err |-> "none"]
    /\ Len(entries) >= 2
    /\ LET n == Len(entries) IN
        /\ SameMAC(entries, n - 1, n)
        /\ entries[n - 1].IP # Nil /\ entries[n].IP # Nil /\ ~SameIP(entries, n - 1, n)
        /\ ~entries[n - 1].Enabled /\ entries[n].Enabled

-----------------------------------------------------------------------------
(* Static store: failures and update                                       *)

\* C6: a call of add, update, delete, enable or disable that returns an error
\* leaves the entry list as it was.
C6_NoPartialMutation ==
    /\ \A e \in Inputs :
        AddOp(mem, entries, e, clock).err # "none"
            => AddOp(mem, entries, e, clock).entries = entries
    /\ \A id \in IDArgs :
        /\ \A u \in Inputs :
            UpdateOp(mem, entries, id, u).err # "none"
                => UpdateOp(mem, entries, id, u).entries = entries
        /\ DeleteOp(entries, id).err # "none" => DeleteOp(entries, id).entries = entries
        /\ \A en \in BOOLEAN :
            SetEnabledOp(entries, id, en).err # "none"
                => SetEnabledOp(entries, id, en).entries = entries

\* a call has failed on a store that holds entries
C6_Witness == last = [op |-> "any", err |-> "failed"] /\ Len(entries) = MaxEntries

Known(id) == \E i \in 1..Len(entries) : entries[i].ID = id

\* the position update, delete, enable and disable address: the first entry
\* with the id
Position(id) == CHOOSE i \in 1..Len(entries) :
                    entries[i].ID = id /\ \A j \in 1..(i - 1) : entries[j].ID # id

\* an enabled entry other than the one at position i has u's MAC or u's
\* non-null IP
OtherHolds(i, u) ==
    \E j \in 1..Len(entries) :
        /\ j # i /\ entries[j].Enabled
        /\ \/ (u.MAC # Nil /\ Deref(mem, entries[j].MAC) = Deref(mem, u.MAC))
           \/ (u.IP # Nil /\ entries[j].IP # Nil
                    /\ Deref(mem, entries[j].IP) = Deref(mem, u.IP))

Replaced(i, u) ==
    [k \in 1..Len(entries) |->
        IF k = i THEN [u EXCEPT !.ID = entries[i].ID, !.LineNumber = entries[i].LineNumber]
        ELSE entries[k]]

\* C7 as stated: update fails with not-found for an unknown id, with a
\* conflict when another enabled entry has the MAC or non-null IP, and
\* otherwise replaces the entry, keeping its id and line number and changing
\* no other entry.
C7_UpdateAlways ==
    \A id \in IDArgs, u \in Inputs :
        LET r == UpdateOp(mem, entries, id, u) IN
        IF ~Known(id) THEN r.err = "not_found" /\ r.entries = entries
        ELSE IF OtherHolds(Position(id), u)
        THEN r.err \in ConflictErrs /\ r.entries = entries
        ELSE Validate(mem, u) => (r.err = "none" /\ r.entries = Replaced(Position(id), u))

\* C7 amended: the same for an argument that passes validation; an argument
\* that fails validation is rejected as invalid, before the id is looked up.
C7_UpdateValid ==
    \A id \in IDArgs, u \in Inputs :
        LET r == UpdateOp(mem, entries, id, u) IN
        IF ~Validate(mem, u) THEN r.err = "invalid" /\ r.entries = entries
        ELSE IF ~Known(id) THEN r.err = "not_found" /\ r.entries = entries
        ELSE IF OtherHolds(Position(id), u)
        THEN r.err \in ConflictErrs /\ r.entries = entries
        ELSE r.err = "none" /\ r.entries = Replaced(Position(id), u)

\* an update succeeded on a store with another entry; the updated entry has
\* the argument's fields and a line number and id of the store's
C7_Witness ==
    /\ last = [op |-> "update", err |-> "none"]
    /\ Len(entries) = 2
    /\ \E i \in 1..2 :
        /\ entries[i].Tag = RichEntry.Tag /\ entries[i].RawLine = RichEntry.RawLine
        /\ entries[i].LineNumber # RichEntry.LineNumber
        /\ entries[i].ID # RichEntry.ID

-----------------------------------------------------------------------------
(* Vendor resolver: termination of Lookup                                  *)

\* the caller is inside searchFile's db.mu.Lock(), which returns only when
\* nobody holds db.mu for reading, and it holds db.mu for reading itself
\* until its Lookup returns
LookupStuck(c) == lpc[c] = "lock_wait" /\ c \in rlock

\* C1: every call to Lookup returns and leaves the cache lock free: no
\* Lookup is ever stuck in the exclusive lock of the disk scan's insert,
\* no caller waits for a lock that a stuck Lookup blocks, and when no Lookup
\* is in progress the lock is neither held nor waited for.
C1_LookupReturns ==
    /\ \A c \in Callers : ~LookupStuck(c)
    /\ \A c \in Callers : lpc[c] = "rlock" => wpend = {}
    /\ (\A c \in Callers : lpc[c] = "idle") => rlock = {} /\ wpend = {}

-----------------------------------------------------------------------------
(* Monitor: reloads, readers, copies                                       *)

\* a step in which a load of source s fails
FailedLoadStep(s) ==
    IF s = "static"
    THEN /\ ParseFile(files["static"]).err
         /\ ReloadStaticEntries \/ \E t \in Tasks : LoadStatic(t)
    ELSE ~files[s].ok /\ \E t \in Tasks : LoadRead(t, s)

\* C8: a failed reload of a source, at startup, on a notification or by
\* ReloadStaticEntries, leaves that source's snapshot as it was, and the
\* watch goroutine goes on: a failed reload of its own takes it back to its
\* select, and it exits only after Stop.
C8_FailedReloadKeepsSnapshot ==
    /\ [](tpc["watcher"] = At("exited") => stopped)
    /\ [][\A s \in Src : FailedLoadStep(s) =>
            /\ Snapshot(s)' = Snapshot(s)
            /\ loaded' = loaded
            /\ tpc'["watcher"] # tpc["watcher"] => tpc'["watcher"] = At("select")]_vars

\* a load has failed and watchFiles has completed a later reload
C8_Witness == health = "recovered" /\ tpc["watcher"] = At("select")

\* the generations a file can have
Gens == 0..(MaxChanges + 1)

\* the files a load can read: a readable file, or for the static file read
\* by ParseLeases one that cannot be opened
Readable == [ok : {TRUE}, gen : Gens, lines : 0..SnapLines]

Unreadable == [ok |-> FALSE, gen |-> 0, lines |-> 0]

\* the list is all of what one load of source s produces
Whole(s, list) ==
    CASE s = "leases" ->
            LET le == LookupResult(cache, preloaded, dbFile, LeaseMAC).entry
                se == LookupResult(cache, preloaded, dbFile, StaticMAC).entry
            IN  \E fl \in Readable, fs \in Readable \cup {Unreadable} :
                    list = LeaseList(fl, fs, le, se)
      [] s = "hosts" -> \E fh \in Readable : list = ParseHosts(fh)
      [] OTHER -> \E fs \in Readable : list = ParseFile(fs).entries

\* C9: a read that is about to return holds the whole list its source's
\* snapshot holds at that moment, which is all of what one load produced
\* (or the empty list nothing was loaded into), and that list is not older
\* than any list a read had returned when this read was called.
C9_ReadsWholeAndNewer ==
    \A r \in Readers : rpc[r] = "done" =>
        /\ rbuf[r] = Snapshot(rsrc[r])
        /\ Whole(rsrc[r], rbuf[r])
        /\ StampLeq(rfloor[r], rstamp[r])

\* a read returns a reloaded list after an earlier read returned the list
\* of before the reload
C9_Witness ==
    \E r \in Readers :
        /\ rpc[r] = "done"
        /\ rfloor[r] # NoStamp
        /\ rfloor[r] # rstamp[r]
        /\ rbuf[r] # <<>>

\* what a list of entries says, the bytes of the MACs and IPs included
DeepView(list, m) ==
    [i \in 1..Len(list) |->
        [list[i] EXCEPT !.MAC = IF @ = Nil THEN "nil" ELSE Deref(m, @),
                        !.IP = IF @ = Nil THEN "nil" ELSE Deref(m, @)]]

\* C10: a list returned by GetAll or GetByID is not changed by a later call
\* on the store, and a change the caller makes to the list does not change
\* what the store's entries say.
C10_CopyOutIsolation ==
    [][/\ held' = held => DeepView(held, mem)' = DeepView(held, mem)
       /\ entries' = entries => DeepView(entries, mem)' = DeepView(entries, mem)]_vars


\* C11: every notification the watcher goroutine receives for a watched path,
\* of whatever kind, starts one reload of the source that owns the path and of
\* no other source.
C11_EveryNotificationReloads ==
    [][Dispatch => tpc'["watcher"] = AtSrc("load", Head(events).name)]_vars


\* C12: once Stop has been called and the watchFiles goroutine exists, the
\* goroutine exits, whether it was waiting in the select or in a reload; after
\* it has exited it starts nothing; and every snapshot is all of what one load
\* produced, or empty.
C12_StopEndsLoop ==
    /\ (stopped /\ tpc["watcher"] # At("none")) ~> (tpc["watcher"] = At("exited"))
    /\ [][tpc["watcher"] = At("exited") => tpc'["watcher"] = At("exited")]_vars
    /\ [](stopped => \A s \in Src : Snapshot(s) = <<>> \/ Whole(s, Snapshot(s)))


\* a step in which Start's load of source s fails
StartLoadFails(s) ==
    IF s = "static" THEN ParseFile(files["static"]).err /\ LoadStatic("starter")
    ELSE ~files[s].ok /\ LoadRead("starter", s)

\* C13: Start returns an error only when the watcher cannot be made, before
\* any load; a load of Start that fails leaves its source's snapshot as it
\* was, empty when nothing was loaded into it before, and takes Start on to
\* the next load or to the start of the watch goroutine; and once Start is
\* past a load, failed or not, the loads after it are made and the watch
\* goroutine is started.
C13_StartLoadsIndependently ==
    /\ [][tpc'["starter"] = At("failed") => tpc["starter"] \in {At("new"), At("failed")}]_vars
    /\ [][\A s \in Src : StartLoadFails(s) =>
            /\ Snapshot(s)' = Snapshot(s)
            /\ loaded[s] = NoStamp => Snapshot(s)' = <<>>
            /\ tpc'["starter"] = After("starter", s)]_vars
    /\ (tpc["starter"] \in {After("starter", s) : s \in Src}) ~> (tpc["watcher"] # At("none"))

\* Start has returned and the goroutine waits in its select; the leases
\* could not be loaded and are empty, the hosts and the static entries were
\* loaded
C13_Witness ==
    /\ tpc["starter"] = At("done")
    /\ tpc["watcher"] = At("select")
    /\ health = "failed"
    /\ loaded["leases"] = NoStamp /\ dhcpLeases = <<>>
    /\ loaded["hosts"] # NoStamp /\ hostEntries # <<>>
    /\ loaded["static"] # NoStamp /\ entries # <<>>


-----------------------------------------------------------------------------
(* Resolver: what Lookup returns                                           *)

\* the records of the backing store whose prefix is a prefix of mac
StoreMatches(mac) ==
    {dbFile[i].entry : i \in {k \in 1..Len(dbFile) :
        dbFile[k].ok /\ HasPrefix(mac, ToUpper(dbFile[k].entry.OUI))}}

\* C14: a Lookup of an address that some prefix of the backing store is a
\* prefix of returns a record of the backing store whose prefix matches the
\* address, on a preloaded resolver and on one that scans the file.
C14_StoreMatchReturned ==
    \A c \in Callers :
        lpc[c] = "return" /\ StoreMatches(lmac[c]) # {} =>
            lfound[c] \in StoreMatches(lmac[c])


\* the cache keys that are prefixes of mac
KeysOf(mac) == {k \in DOMAIN cache : HasPrefix(mac, k)}

\* C15: when cache keys are prefixes of the uppercased input, Lookup
\* returns the record stored under the longest of them.
C15_LongestCachedPrefix ==
    \A c \in Callers :
        lpc[c] = "return" /\ KeysOf(lmac[c]) # {} =>
            \E k \in KeysOf(lmac[c]) :
                /\ \A j \in KeysOf(lmac[c]) : Len(j) <= Len(k)
                /\ lfound[c] = cache[k]

\* a Lookup is about to return, and two keys with different records are
\* prefixes of its input
C15_Witness ==
    \E c \in Callers :
        /\ lpc[c] = "return"
        /\ \E j, k \in KeysOf(lmac[c]) : Len(j) < Len(k) /\ cache[j] # cache[k]


C17_MissRetried ==
    /\ [][\A c \in Callers : SearchEOF(c) =>
            cache' = cache /\ lfound'[c] = cache[KeyUnknown]]_vars
    /\ \A c \in Callers :
        (lmiss[c] /\ lpc[c] = "rlock" /\ StoreMatches(lmac[c]) # {})
            ~> (lpc[c] = "idle" /\ lret[c] \in StoreMatches(lmac[c]))


\* C18: the scans of two concurrent callers do not disturb each other: a
\* Lookup whose scan ends without a match, and which therefore returns
\* UNKNOWN, has read the whole backing store, so no record of the store
\* matches its address, as when it runs alone.
C18_ScansIndependent ==
    \A c \in Callers :
        (~preloaded /\ lpc[c] = "return" /\ lfound[c] = cache[KeyUnknown]) =>
            StoreMatches(lmac[c]) = {}


-----------------------------------------------------------------------------
(* Static store: the lines entries are written as                          *)

\* the fields a line is parsed into
Fields(m, e) ==
    <<IF e.MAC = Nil THEN "" ELSE Deref(m, e.MAC),
      IF e.IP = Nil THEN "" ELSE Deref(m, e.IP),
      e.Hostname, e.Tag, e.LeaseTime, e.Comment>>

\* C19: parsing the line an enabled entry that passes validation is written
\* as gives back the entry's MAC, IP, hostname, tag, lease time and comment,
\* each in its own field.  The line is all a parser has, so two such entries
\* that are written as the same line have the same six fields.
C19_LineGivesFields ==
    \A i \in 1..Len(entries) : \A e \in LineInputs :
        (/\ entries[i].Enabled /\ Validate(mem, entries[i])
         /\ e.Enabled /\ Validate(mem, e)
         /\ ToDnsmasqLine(mem, e) = ToDnsmasqLine(mem, entries[i])) =>
            Fields(mem, e) = Fields(mem, entries[i])

\* the entries after setEnabled(id, en)
Toggle(es, id, en) == SetEnabledOp(es, id, en).entries

LinesOf(m, es) == [i \in 1..Len(es) |-> ToDnsmasqLine(m, es[i])]

\* what C20 says of a step that disables or enables the entry with an id
\* that is in the store; onlyEnabled restricts the restoring to entries that
\* were enabled before the disable
ToggleLaw(onlyEnabled) ==
    \A id \in IDArgs :
        LET i == FindByID(entries, id) IN
        /\ (i # 0 /\ Disable(id, RecToggle)) =>
            /\ ToDnsmasqLine(mem, entries'[i]) = <<"#", " ">> \o entries[i].RawLine
            /\ (onlyEnabled => entries[i].Enabled) =>
                /\ Toggle(entries', id, TRUE) = entries
                /\ LinesOf(mem, Toggle(entries', id, TRUE)) = LinesOf(mem, entries)
            /\ ~entries[i].Enabled => Toggle(entries', id, TRUE)[i].Enabled
            /\ Toggle(entries', id, FALSE) = entries'
        /\ (i # 0 /\ Enable(id, RecToggle)) =>
            /\ Toggle(entries', id, TRUE) = entries'
            /\ entries[i].Enabled => entries' = entries

\* C20 as stated: a disabled entry is written as "# " and the raw line it
\* holds; disable(id) followed by enable(id) restores the entries, and so
\* their lines, to what they were before the disable; a second disable or
\* enable changes nothing.
C20_ToggleRestores == [][ToggleLaw(FALSE)]_vars

\* C20 for entries that were enabled: a disabled entry is written as "# "
\* and the raw line it holds; disable(id) followed by enable(id) restores
\* the entries and their lines when the entry was enabled before the
\* disable, and leaves the entry enabled when it was disabled; a second
\* disable or enable changes nothing.
C20_ToggleRestoresEnabled == [][ToggleLaw(TRUE)]_vars

\* the store's only entry holds a raw line and has just been disabled
C20_Witness ==
    /\ last = [op |-> "disable", err |-> "none"]
    /\ Len(entries) = 1
    /\ ~entries[1].Enabled /\ entries[1].RawLine # <<>>


-----------------------------------------------------------------------------
(* Static store: Manager.Validate                                          *)

\* how often the report holds the violation
Reported(report, v) == Cardinality({k \in 1..Len(report) : report[k] = v})

\* C21: Manager.Validate changes nothing in the store; its report holds one
\* violation for every entry that fails a validation rule, and one
\* duplicate-MAC (duplicate-IP) violation naming positions i and j for every
\* pair i < j of enabled entries with the same MAC (IP), and no other
\* duplicate violation, so none that names a disabled entry.
C21_ValidateAllReports ==
    /\ [][last'.op = "validate" => entries' = entries /\ mem' = mem]_vars
    /\ [](last.op = "validate" =>
            \A i, j \in 1..Len(entries) :
                /\ Reported(last.err, [kind |-> "invalid", a |-> i, b |-> j])
                    = IF i = j /\ ~Validate(mem, entries[i]) THEN 1 ELSE 0
                /\ Reported(last.err, [kind |-> "dup_mac", a |-> i, b |-> j])
                    = IF i < j /\ entries[i].Enabled /\ entries[j].Enabled
                         /\ SameMAC(entries, i, j) THEN 1 ELSE 0
                /\ Reported(last.err, [kind |-> "dup_ip", a |-> i, b |-> j])
                    = IF i < j /\ entries[i].Enabled /\ entries[j].Enabled
                         /\ SameIP(entries, i, j) THEN 1 ELSE 0)

\* the fields are those of a well-formed lease line
WellFormed(fields) ==
    /\ Len(fields) >= 5
    /\ ParseInt(fields[1]).ok
    /\ ParseMAC(fields[2]).ok
    /\ ParseIP(fields[3]) # "nil"

\* one record for every well-formed line, in the order of the lines
RECURSIVE WellFormedLeases(_, _, _)
WellFormedLeases(lines, c, now) ==
    IF lines = <<>> THEN <<>>
    ELSE LET fields == SplitFields(TrimSpace(lines[1])) IN
         (IF WellFormed(fields) THEN <<parseLeaseLine(fields, c, now)>> ELSE <<>>)
            \o WellFormedLeases(Tail(lines), c, now)

IsDynamic(l) == ~l.Static

\* C22: ParseLeases returns, for any text, exactly one record for every
\* well-formed line, in file order, and none for a line with fewer than 5
\* tokens or with a malformed timestamp, MAC or IP.
C22_MalformedSkipped ==
    leases.op = "leases" =>
        SelectSeq(leases.out, IsDynamic) = WellFormedLeases(Split(text, "\n"), cache, clock)

\* the values of a directive, its comment stripped
ValuesOf(line0) ==
    LET idx == IndexAny(line0, {"#", ";"})
        line == IF idx # 0 THEN TrimRight(SubSeq(line0, 1, idx - 1)) ELSE line0
    IN  Split(Split(line, "=")[2], ",")

\* the fields the values after the MAC stand for: set:<x> or tag:<x> is the
\* tag <x>, an IPv4 address is the IP, any other value is hostname and id
RECURSIVE ValuesMean(_, _, _)
ValuesMean(lease, values, i) ==
    IF i > Len(values) THEN lease
    ELSE LET v == values[i] IN
         IF HasPrefix(v, <<"s", "e", "t", ":">>) \/ HasPrefix(v, <<"t", "a", "g", ":">>)
         THEN ValuesMean([lease EXCEPT !.Tag = SubSeq(v, 5, Len(v))], values, i + 1)
         ELSE IF ParseIP(v) \in {"IP1", "IP2"}
         THEN ValuesMean([lease EXCEPT !.IP = ParseIP(v)], values, i + 1)
         ELSE ValuesMean([lease EXCEPT !.Name = v, !.ID = v], values, i + 1)

\* C23: the record parseStaticLine makes of a dhcp-host directive has the
\* first value as its MAC and isStatic = true; of the other values, in any
\* order, set:<x> or tag:<x> gives the tag <x>, a valid IPv4 address the IP,
\* and any other value both the hostname and the id.
C23_DirectiveFields ==
    leases.op = "static" /\ leases.out # <<>> =>
        LET got == leases.out[1]
            want == ValuesMean(ZeroLease, ValuesOf(text), 2)
        IN  /\ got.Static
            /\ got.MAC = ParseMAC(ValuesOf(text)[1]).mac
            /\ got.Name = got.ID
            /\ got.Tag = want.Tag
            /\ got.IP = want.IP
            /\ got.Name = want.Name

EnabledUnique(es) ==
    \A i, j \in 1..Len(es) :
        (i # j /\ es[i].Enabled /\ es[j].Enabled) => (~SameMAC(es, i, j) /\ ~SameIP(es, i, j))

\* C30: when no two enabled entries share a MAC or an IP, the same holds
\* after every successful Add, Update, Delete and Disable, also when the
\* Update enables a disabled entry or the Add's MAC is held by a disabled one.
C30_UniquenessPreserved ==
    EnabledUnique(entries) =>
        /\ \A e \in SafeInputs :
            LET r == AddOp(mem, entries, e, clock) IN
            r.err = "none" => EnabledUnique(r.entries)
        /\ \A id \in IDArgs :
            /\ \A u \in SafeInputs :
                LET r == UpdateOp(mem, entries, id, u) IN
                r.err = "none" => EnabledUnique(r.entries)
            /\ DeleteOp(entries, id).err = "none" => EnabledUnique(DeleteOp(entries, id).entries)
            /\ SetEnabledOp(entries, id, FALSE).err = "none"
                    => EnabledUnique(SetEnabledOp(entries, id, FALSE).entries)

\* an Update has enabled an entry whose MAC a disabled entry holds too
C30_Witness ==
    /\ last = [op |-> "update", err |-> "none"]
    /\ EnabledUnique(entries)
    /\ \E i, j \in 1..Len(entries) :
        i # j /\ SameMAC(entries, i, j) /\ entries[i].Enabled /\ ~entries[j].Enabled

\* C25: the reload that watchFiles runs for a write of Save changes nothing
\* in the store: whatever Add, Update, Delete, Enable or Disable did after
\* Save copied the entries is still there after the reload.
C25_NoMutationLost == [][snotify' < snotify => entries' = entries]_vars

\* Start has loaded source s and not yet added its file to the watcher, and
\* the file was written since the load: it is newer than the snapshot
GapWrite(s) ==
    /\ tpc["starter"].at \in {"load", "assign", "spawn", "add"}
    /\ s \notin watched
    /\ loaded[s] # NoStamp
    /\ files[s].ok
    /\ loaded[s][1] < files[s].gen

\* C26: a write of a source's file that comes after Start's load of the
\* source and before the file is watched is in the source's snapshot at
\* some later time, unless the monitor is stopped, the file is removed or a
\* task is blocked.
C26_StartupWriteSeen ==
    \A s \in Src :
        GapWrite(s) ~>
            \/ loaded[s][1] = files[s].gen
            \/ stopped
            \/ ~files[s].ok
            \/ \E t \in Tasks : tpc[t] = At("blocked")

\* C27: when watchFiles has reloaded the static store after a write of the
\* static file, the static records of the lease snapshot are those of the
\* static file as it is now.
C27_LeasesFollowStatic ==
    [][(/\ tpc["watcher"] = AtSrc("load", "static")
        /\ tpc'["watcher"] = At("select")
        /\ loaded'["static"] = StampOf(files', "static")
        /\ loaded["leases"] # NoStamp)
            => loaded'["leases"][2] = files'["static"].gen]_vars

\* what a resolver preloaded from the backing store returns for the address
PreloadedAnswer(file, mac) == ProbeCache(NewCache(file, TRUE), TRUE, mac).entry

\* the two are the same vendor record
SameRecord(a, b) == a.OUI = b.OUI /\ a.Company = b.Company /\ a.Private = b.Private

\* C28: a Lookup of a resolver that was not preloaded returns the record a
\* resolver preloaded from the same backing store returns for the address,
\* whatever was looked up before.
C28_LazyAsPreloaded ==
    \A c \in Callers :
        lpc[c] = "return" /\ ~preloaded =>
            SameRecord(lfound[c], PreloadedAnswer(dbFile, lmac[c]))

\* sub occurs in str
Contains(str, sub) ==
    \E k \in 0..(Len(str) - Len(sub)) : SubSeq(str, k + 1, k + Len(sub)) = sub

\* C29: the line every entry of the store is written as, enabled or
\* disabled, holds the entry's MAC (in either letter case), so the entry can
\* be read back from the file Save writes.
C29_LineHoldsMAC ==
    \A i \in 1..Len(entries) :
        Contains(ToUpper(ToDnsmasqLine(mem, entries[i])), GetFormattedMAC(mem, entries[i]))

\* C31: nothing changes the store between Save's reading of the entries and
\* the end of its file write: when the write completes the file is the
\* serialization of the store's list as it is then.
C31_SaveWritesTheStore ==
    [][scopy.busy /\ ~scopy'.busy => sfile' = WrittenFile(mem', entries')]_vars

\* the step is one of a load of source s, by Start, by watchFiles or by
\* ReloadStaticEntries
LoadStepOf(s) ==
    \/ \E t \in Tasks :
        tpc[t].at \in {"load", "assign"} /\ tpc[t].src = s /\ tpc'[t] # tpc[t]
    \/ loaded'[s] # loaded[s]
    \/ Snapshot(s)' # Snapshot(s)

\* C32: a load of one source leaves the snapshots of the two other sources
\* as they were.
C32_ReloadChangesOneSource ==
    [][\A s \in Src : LoadStepOf(s) =>
            \A o \in Src \ {s} : Snapshot(o)' = Snapshot(o) /\ loaded'[o] = loaded[o]]_vars

\* watchFiles has completed a reload and all three snapshots hold records
C32_Witness ==
    /\ health = "recovered"
    /\ dhcpLeases # <<>> /\ hostEntries # <<>> /\ entries # <<>>

\* the records of the backing store with a prefix that is not empty and
\* that the address starts with
PrefixMatches(mac) == {e \in StoreMatches(mac) : e.OUI # <<>>}

\* C33: for an address that starts with no non-empty prefix of the backing
\* store, Lookup returns the private record when the second digit is 2, 6,
\* A or E and the unknown record otherwise, never a record of the store.
C33_EmptyPrefixNeverMatches ==
    \A c \in Callers :
        lpc[c] = "return" /\ PrefixMatches(lmac[c]) = {} =>
            IF Len(lmac[c]) > 1 /\ lmac[c][2] \in PrivateDigits
            THEN SameRecord(lfound[c], PrivateEntry)
            ELSE SameRecord(lfound[c], UnknownEntry)

\* C34: Stop returns without a failure in every state of the monitor: after
\* an earlier Stop, before Start, and after a Start that failed.
C34_StopNeverFails == ~panicked

\* C35: on a preloaded resolver no Lookup reads the backing file, the cache
\* stays as the preload built it, an address with no cached prefix and no
\* private second digit gets UNKNOWN, and the resolver is preloaded only if
\* every record of the backing store was read into the cache.
C35_PreloadedIsWholeStore ==
    preloaded =>
        /\ \A c \in Callers : lpc[c] \notin {"seek", "scan", "lock", "lock_wait"}
        /\ cache = preloadDatabase(dbFile).cache
        /\ \A c \in Callers :
              lpc[c] = "return" /\ CacheHits(cache, lmac[c]) = {}
                  /\ ~(Len(lmac[c]) > 1 /\ lmac[c][2] \in PrivateDigits)
              => lfound[c] = UnknownEntry
        /\ \A i \in 1..Len(dbFile) :
              dbFile[i].ok => ToUpper(dbFile[i].entry.OUI) \in DOMAIN cache

DefaultKeys == {KeyUnknown} \cup {KeyPrivate(dg) : dg \in PrivateDigits}

\* every key of the cache stays, bound to a record of the same content
CacheGrows ==
    \A k \in DOMAIN cache : k \in DOMAIN cache' /\ SameRecord(cache'[k], cache[k])

\* C36: Lookups only add keys to the cache and never change a cached record;
\* the UNKNOWN key and the four private-pattern keys are always there, and
\* the four private-pattern keys are always bound to one and the same record.
C36_CacheGrowsDefaultsStay ==
    /\ [][CacheGrows]_vars
    /\ [](/\ DefaultKeys \subseteq DOMAIN cache
          /\ \A dg \in PrivateDigits : cache[KeyPrivate(dg)] = cache[KeyPrivate("2")])

\* the whole seconds of the time from now to the end of the lease
WholeSeconds(r, expire, now) ==
    LET d == expire * 1000 - now IN
    IF d >= 0 THEN r >= 0 /\ r * 1000 <= d /\ d < r * 1000 + 1000
    ELSE r <= 0 /\ d <= r * 1000 /\ r * 1000 - 1000 < d

\* C37: a static record has a Remain of ten years when it is parsed and in
\* every list GetDHCPLeases returns; a dynamic lease gets its Remain from its
\* Expire and the time of the call, negative when the lease has ended, and
\* GetDHCPLeases returns every record of the snapshot.
C37_StaticKeepDynamicRecomputed ==
    /\ \A i \in 1..Len(leases.out) : leases.out[i].Static => leases.out[i].Remain = TenYears
    /\ lgot.called =>
        /\ Len(lgot.list) = Len(lgot.of)
        /\ \A i \in 1..Len(lgot.of) :
            LET l == lgot.of[i]
                g == lgot.list[i]
            IN  /\ [g EXCEPT !.Remain = l.Remain] = l
                /\ l.Static => g.Remain = TenYears
                /\ ~l.Static /\ l.Expire # ZeroTime => WholeSeconds(g.Remain, l.Expire, lgot.now)
                /\ ~l.Static /\ l.Expire = ZeroTime => g.Remain < 0

C37_Witness ==
    /\ lgot.called
    /\ \E i \in 1..Len(lgot.list) : lgot.list[i].Static
    /\ \E i \in 1..Len(lgot.list) : ~lgot.list[i].Static /\ lgot.list[i].Remain < 0
                                        /\ lgot.list[i].Expire # ZeroTime

KnownID(id) == \E i \in 1..Len(entries) : entries[i].ID = id

\* the list without its i-th entry
Without(es, i) == SubSeq(es, 1, i - 1) \o SubSeq(es, i + 1, Len(es))

\* C38: Delete with a known id removes one entry, one that has the id, and
\* keeps the others as they are and in their order; Delete, Enable and
\* Disable with an unknown id return not-found and change nothing; Enable
\* and Disable with a known id change only the Enabled flag of one entry
\* that has the id.
C38_DeleteRemovesOne ==
    \A id \in IDArgs :
        LET del == DeleteOp(entries, id) IN
        /\ KnownID(id) =>
              /\ del.err = "none"
              /\ \E i \in 1..Len(entries) :
                    entries[i].ID = id /\ del.entries = Without(entries, i)
        /\ ~KnownID(id) => del.err = "not_found" /\ del.entries = entries
        /\ \A enabled \in BOOLEAN :
              LET set == SetEnabledOp(entries, id, enabled) IN
              /\ KnownID(id) =>
                    /\ set.err = "none"
                    /\ \E i \in 1..Len(entries) :
                          /\ entries[i].ID = id
                          /\ set.entries = [entries EXCEPT ![i].Enabled = enabled]
              /\ ~KnownID(id) => set.err = "not_found" /\ set.entries = entries

\* a Delete has removed one entry of a store that held two
C38_Witness ==
    /\ last = [op |-> "delete", err |-> "none"]
    /\ Len(entries) = 1
    /\ KnownID(entries[1].ID) /\ \E id \in IDArgs : ~KnownID(id)


====
